---------------------------- MODULE Spec2Model ----------------------------
(***************************************************************************)
(* A model of the MBR channel-metric engine (NovelAn/report-rpa):          *)
(*   - the fiscal calendar            (src/src/models/data_schema.py),     *)
(*   - the growth calculator          (src/src/transformation/calculator.py)*)
(*   - the period aggregator          (src/src/transformation/calculator.py)*)
(*   - the exclusion engine and the core-business composer                *)
(*                      (src/src/transformation/core_business_calculator.py)*)
(*   - the channel hierarchy composer                                      *)
(*                      (src/src/transformation/channel_aggregator.py),    *)
(*   - the fiscal aggregator (src/src/transformation/fiscal_calculator.py),*)
(*   - the cross-source target merger                                      *)
(*                      (src/src/ingestion/get_monthly_targets.py).        *)
(*                                                                         *)
(* Conventions.                                                            *)
(*   Optional[T]   : <<>> is None, <<x>> is the value x.                   *)
(*   amounts       : Python floats that are only added and subtracted are  *)
(*                   integers here.                                        *)
(*   round(x, 2)   : a float rounded to two decimals is the integer number *)
(*                   of hundredths (20.0 is 2000).                         *)
(*   unrounded x/y : a ratio the code does not round is the reduced        *)
(*                   fraction [n |-> .., d |-> ..].                        *)
(* Each subsystem has its own specification (SpecFiscal, SpecGrowth, ...); *)
(* the variables of the other subsystems stay at their idle value.         *)
(***************************************************************************)
EXTENDS Integers, Sequences, FiniteSets, TLC

VARIABLES
    \* fiscal calendar
    date_value,        \* the date handed to FiscalYear.* / (year, month) handed to _get_fy_start_date
    fiscal_year,       \* Optional: result of FiscalYear.get_fiscal_year(date_value)
    fiscal_quarter,    \* Optional: result of FiscalYear.get_fiscal_quarter(date_value)
    fy_start_date,     \* Optional: result of _get_fy_start_date(date_value.year, date_value.month)
    \* growth calculator
    current_value,     \* Optional amount
    last_value,        \* Optional amount (last year's / last month's)
    yoy_growth,        \* outcome of MetricCalculator.calculate_yoy
    mom_growth,        \* outcome of MetricCalculator.calculate_mom
    \* channel hierarchy composer / core business composer
    pfs_metric,        \* Optional MonthlyMetrics: first argument of the composers
    dtc_metric,        \* Optional MonthlyMetrics: second argument of the composers
    total,             \* outcome of the last calculate_total_channel(pfs_metric, dtc_metric)
    total_prev,        \* outcome of the call of calculate_total_channel before the last
    dtc,               \* outcome of calculate_dtc_channel(pfs_metric, dtc_metric)
    core_business,     \* outcome of calculate_core_business(pfs_metric, dtc_metric)
    \* period aggregator / exclusion engine / fiscal aggregator
    daily_metrics,     \* the list of TargetMetric handed to the aggregators
    selector,          \* [year, month, channel]: the period and channel asked for
    exclusion_config,  \* [exclude_ff, exclude_social]
    monthly,           \* outcome of DataAggregator.aggregate_monthly
    ytd,               \* outcome of DataAggregator.calculate_ytd(year, channel, month)
    monthly_excl,      \* outcome of CoreBusinessCalculator.aggregate_monthly_with_exclusion
    fiscal_monthly,    \* outcome of FiscalYearAggregator.aggregate_fiscal_year_monthly
    fiscal_ytd,        \* outcome of FiscalYearAggregator.calculate_fiscal_ytd(year, channel, month)
    \* cross-source merger (get_monthly_targets.py)
    df_db,             \* what the database reader returned: None or a frame of rows
    excel_sheet,       \* the target sheet of the spreadsheet: None or its rows and columns
    df_ff,             \* what _read_ff_from_excel returned: None or a frame of FF rows
    df_ff_ytd,         \* what _read_ytd_ff_from_excel returned: None or a one-row frame
    monthly_targets,   \* outcome of get_monthly_targets
    ytd_targets,       \* outcome of get_ytd_targets
    monthly_targets_dict,  \* outcome of get_monthly_targets_dict
    ytd_targets_dict,  \* outcome of get_ytd_targets_dict
    \* fiscal growth (fiscal_calculator.py)
    current_metric,    \* the MonthlyMetrics whose growth is asked for
    all_metrics,       \* the list of MonthlyMetrics searched for the baseline
    fiscal_yoy,        \* outcome of FiscalYearAggregator.calculate_fiscal_yoy
    fiscal_mom,        \* outcome of FiscalYearAggregator.calculate_fiscal_mom
    \* channel hierarchy over a list (channel_aggregator.py)
    hierarchy_metrics, \* the list monthly_metrics handed to the two functions below
    channel_breakdown, \* outcome of ChannelAggregator.calculate_channel_breakdown
    hierarchy_errors,  \* outcome of ChannelAggregator.validate_channel_hierarchy
    \* operations on a list of aggregates (calculator.py, fiscal_calculator.py,
    \* core_business_calculator.py)
    batch_metrics,     \* the list monthly_metrics handed to the operations below
    calculate_derived, \* CoreBusinessCalculator.calculate_derived
    batch_result,      \* outcome of the last of these operations
    \* the supplementary year-to-date read (get_monthly_targets.py 464-585)
    ytd_period,        \* the (year, month) _read_ytd_ff_from_excel is asked for
    months_listed,     \* months_to_sum as the loop of the read left it
    ytd_ff_read,       \* outcome of _read_ytd_ff_from_excel
    \* derived direct-channel aggregates (core_business_calculator.py 49-147)
    excl_ff_result,    \* outcome of CoreBusinessCalculator.calculate_dtc_excl_ff
    excl_ff_sc_result  \* outcome of CoreBusinessCalculator.calculate_dtc_excl_ff_sc

fiscalVars == <<date_value, fiscal_year, fiscal_quarter, fy_start_date>>
growthVars == <<current_value, last_value, yoy_growth, mom_growth>>
composeVars == <<pfs_metric, dtc_metric, total, total_prev, dtc, core_business>>
aggInputs == <<daily_metrics, selector, exclusion_config>>
aggVars == <<aggInputs, monthly, ytd, monthly_excl, fiscal_monthly, fiscal_ytd>>
mergeInputs == <<df_db, excel_sheet>>
mergeVars == <<mergeInputs, df_ff, df_ff_ytd, monthly_targets, ytd_targets,
               monthly_targets_dict, ytd_targets_dict>>
fiscalGrowthVars == <<current_metric, all_metrics, fiscal_yoy, fiscal_mom>>
hierarchyVars == <<hierarchy_metrics, channel_breakdown, hierarchy_errors>>
batchVars == <<batch_metrics, calculate_derived, batch_result>>
windowVars == <<ytd_period, months_listed, ytd_ff_read>>
derivedVars == <<excl_ff_result, excl_ff_sc_result>>
vars == <<fiscalVars, growthVars, composeVars, aggVars, mergeVars, fiscalGrowthVars,
          hierarchyVars, batchVars, windowVars, derivedVars>>
\* What the operations of one subsystem leave alone.
notFiscal == <<growthVars, composeVars, aggVars, mergeVars, fiscalGrowthVars,
    hierarchyVars, batchVars, windowVars, derivedVars>>
notGrowth == <<fiscalVars, composeVars, aggVars, mergeVars, fiscalGrowthVars,
    hierarchyVars, batchVars, windowVars, derivedVars>>
notCompose == <<fiscalVars, growthVars, aggVars, mergeVars, fiscalGrowthVars,
    hierarchyVars, batchVars, windowVars, derivedVars>>
notAgg == <<fiscalVars, growthVars, composeVars, mergeVars, fiscalGrowthVars,
    hierarchyVars, batchVars, windowVars, derivedVars>>
notMerge == <<fiscalVars, growthVars, composeVars, fiscalGrowthVars,
    hierarchyVars, batchVars, windowVars, derivedVars>>
notFiscalGrowth == <<fiscalVars, growthVars, composeVars, aggVars, mergeVars, hierarchyVars,
    batchVars, windowVars, derivedVars>>
notHierarchy == <<fiscalVars, growthVars, composeVars, aggVars, mergeVars, fiscalGrowthVars,
    batchVars, windowVars, derivedVars>>
notBatch == <<fiscalVars, growthVars, composeVars, aggVars, mergeVars, fiscalGrowthVars,
    hierarchyVars, windowVars, derivedVars>>
notWindow == <<fiscalVars, growthVars, composeVars, aggVars, mergeVars, fiscalGrowthVars,
    hierarchyVars, batchVars, derivedVars>>
notDerived == <<fiscalVars, growthVars, composeVars, aggVars, mergeVars, fiscalGrowthVars,
    hierarchyVars, batchVars, windowVars>>

-----------------------------------------------------------------------------
(* Optional values and outcomes *)

None == <<>>
Some(x) == <<x>>
IsNone(o) == o = <<>>
IsSome(o) == o # <<>>
Val(o) == o[1]

\* The outcome of a call that has not been made yet.
NotCalled == [kind |-> "not_called", val |-> <<>>]
\* The outcome of a call that returned v (v is an Optional: None is Python's None).
Returned(v) == [kind |-> "returned", val |-> v]
\* The outcome of a call that raised the named exception.
Raised(e) == [kind |-> e, val |-> <<>>]

-----------------------------------------------------------------------------
(* Arithmetic helpers *)

Abs(x) == IF x < 0 THEN -x ELSE x

\* round(n/d) to the nearest integer, ties to the even neighbour (Python's round);
\* d # 0. With q = floor(n/d) and 0 <= r < d.
RoundDiv(n, d) ==
    LET nn == IF d < 0 THEN -n ELSE n
        dd == Abs(d)
        q  == nn \div dd
        r  == nn - q * dd
    IN  IF 2 * r < dd THEN q
        ELSE IF 2 * r > dd THEN q + 1
        ELSE IF q % 2 = 0 THEN q ELSE q + 1

\* round((n / d) * 100, 2) in hundredths.
Pct2(n, d) == RoundDiv(10000 * n, d)

-----------------------------------------------------------------------------
(* Fiscal calendar *)

FirstYear == 2024
YearSpan == 2
Years == FirstYear .. (FirstYear + YearSpan)
Months == 1 .. 12

IsLeap(y) == (y % 4 = 0 /\ y % 100 # 0) \/ y % 400 = 0
DaysInMonth(y, m) ==
    IF m \in {4, 6, 9, 11} THEN 30
    ELSE IF m = 2 THEN (IF IsLeap(y) THEN 29 ELSE 28)
    ELSE 31

Date(y, m, d) == [year |-> y, month |-> m, day |-> d]

\* First and last day of every month of the modelled years.
Dates == { Date(y, m, d) : y \in Years, m \in Months, d \in {1, 30, 31} } \cap
         { dt \in [year : Years, month : Months, day : 1 .. 31] :
               dt.day <= DaysInMonth(dt.year, dt.month) }

\* FiscalYear.get_fiscal_year with the comparison of a plausible slip (> for >=).
get_fiscal_year_mut(dt) ==
    IF dt.month > 4 THEN dt.year + 1 ELSE dt.year

\* FiscalYear.get_fiscal_year
get_fiscal_year(dt) ==
    IF dt.month >= 4 THEN dt.year + 1 ELSE dt.year

\* FiscalYear.get_fiscal_quarter
get_fiscal_quarter(dt) ==
    IF 4 <= dt.month /\ dt.month <= 6 THEN 1
    ELSE IF 7 <= dt.month /\ dt.month <= 9 THEN 2
    ELSE IF 10 <= dt.month /\ dt.month <= 12 THEN 3
    ELSE 4

\* _get_fy_start_date with the January-March branch dropped.
get_fy_start_date_mut(current_year, current_month) ==
    Date(current_year, 4, 1)

\* _get_fy_start_date
get_fy_start_date(current_year, current_month) ==
    IF current_month >= 4
    THEN Date(current_year, 4, 1)
    ELSE Date(current_year - 1, 4, 1)

FiscalInit ==
    /\ date_value \in Dates
    /\ fiscal_year = None
    /\ fiscal_quarter = None
    /\ fy_start_date = None

FiscalIdle ==
    /\ date_value = Date(FirstYear, 1, 1)
    /\ fiscal_year = None
    /\ fiscal_quarter = None
    /\ fy_start_date = None

GetFiscalYear ==
    /\ fiscal_year' = Some(get_fiscal_year(date_value))
    /\ UNCHANGED <<date_value, fiscal_quarter, fy_start_date>> /\ UNCHANGED notFiscal

GetFiscalQuarter ==
    /\ fiscal_quarter' = Some(get_fiscal_quarter(date_value))
    /\ UNCHANGED <<date_value, fiscal_year, fy_start_date>> /\ UNCHANGED notFiscal

GetFyStartDate ==
    /\ fy_start_date' = Some(get_fy_start_date(date_value.year, date_value.month))
    /\ UNCHANGED <<date_value, fiscal_year, fiscal_quarter>> /\ UNCHANGED notFiscal

-----------------------------------------------------------------------------
(* Growth calculator: MetricCalculator.calculate_yoy / calculate_mom *)

MaxSmallValue == 3
\* Small values around zero plus the amounts of the documented examples.
GrowthValues == (-1 .. MaxSmallValue) \cup {50000, 100000, 110000, 120000}
OptGrowthValues == {None} \cup { Some(v) : v \in GrowthValues }

\* calculate_yoy without the zero-base branch: a zero prior value is treated as
\* "no growth" instead of undefined.
calculate_yoy_mut(cur, last) ==
    IF IsNone(cur) \/ IsNone(last) THEN None
    ELSE IF Val(last) = 0 THEN Some(0)
    ELSE Some(Pct2(Val(cur) - Val(last), Val(last)))

\* MetricCalculator.calculate_yoy; the result is in hundredths of a percent point.
calculate_yoy(cur, last) ==
    IF IsNone(cur) \/ IsNone(last) THEN None
    ELSE IF Val(last) = 0
         THEN (IF Val(cur) = 0 THEN Some(0) ELSE None)
         ELSE Some(Pct2(Val(cur) - Val(last), Val(last)))

\* MetricCalculator.calculate_mom
calculate_mom(cur, last) ==
    IF IsNone(cur) \/ IsNone(last) THEN None
    ELSE IF Val(last) = 0
         THEN (IF Val(cur) = 0 THEN Some(0) ELSE None)
         ELSE Some(Pct2(Val(cur) - Val(last), Val(last)))

GrowthInit ==
    /\ current_value \in OptGrowthValues
    /\ last_value \in OptGrowthValues
    /\ yoy_growth = NotCalled
    /\ mom_growth = NotCalled

GrowthIdle ==
    /\ current_value = None
    /\ last_value = None
    /\ yoy_growth = NotCalled
    /\ mom_growth = NotCalled

CalculateYoy ==
    /\ yoy_growth' = Returned(calculate_yoy(current_value, last_value))
    /\ UNCHANGED <<current_value, last_value, mom_growth>> /\ UNCHANGED notGrowth

CalculateMom ==
    /\ mom_growth' = Returned(calculate_mom(current_value, last_value))
    /\ UNCHANGED <<current_value, last_value, yoy_growth>> /\ UNCHANGED notGrowth

-----------------------------------------------------------------------------
(* Fractions: the value of a float division the code does not round *)

RECURSIVE GCD(_, _)
GCD(a, b) == IF b = 0 THEN a ELSE GCD(b, a % b)

\* n / d as a reduced fraction with a positive denominator (d # 0).
Rat(n, d) ==
    LET nn == IF d < 0 THEN -n ELSE n
        dd == Abs(d)
        g  == GCD(Abs(nn), dd)
    IN  [n |-> nn \div g, d |-> dd \div g]

\* The float 0.0.
Zero == Rat(0, 1)
\* A value rounded to two decimals (h hundredths) as a float.
Hundredths(h) == Rat(h, 100)
RatLt(a, b) == a.n * b.d < b.n * a.d
RatLeq(a, b) == a.n * b.d <= b.n * a.d

-----------------------------------------------------------------------------
(* MetricCalculator: the derived ratios. Arguments are Optionals; results are
   Optional floats rounded to two decimals, given in hundredths. *)

calculate_cr_mut(buyers, uv) ==
    IF IsNone(buyers) \/ IsNone(uv) \/ uv = Some(0) THEN None
    ELSE Some(RoundDiv(100 * Val(buyers), Val(uv)))

\* MetricCalculator.calculate_cr
calculate_cr(buyers, uv) ==
    IF IsNone(buyers) \/ IsNone(uv) \/ uv = Some(0) THEN None
    ELSE Some(Pct2(Val(buyers), Val(uv)))

\* MetricCalculator.calculate_aov
calculate_aov(gmv, orders) ==
    IF IsNone(gmv) \/ IsNone(orders) \/ orders = Some(0) THEN None
    ELSE Some(RoundDiv(100 * Val(gmv), Val(orders)))

\* MetricCalculator.calculate_atv
calculate_atv(gmv, buyers) ==
    IF IsNone(gmv) \/ IsNone(buyers) \/ buyers = Some(0) THEN None
    ELSE Some(RoundDiv(100 * Val(gmv), Val(buyers)))

\* MetricCalculator.calculate_aur
calculate_aur(gmv, gmv_units) ==
    IF IsNone(gmv) \/ IsNone(gmv_units) \/ gmv_units = Some(0) THEN None
    ELSE Some(RoundDiv(100 * Val(gmv), Val(gmv_units)))

\* MetricCalculator.calculate_rrc
calculate_rrc(return_amount, cancel_amount, gmv) ==
    IF IsNone(return_amount) \/ IsNone(cancel_amount) \/ IsNone(gmv) \/ gmv = Some(0)
    THEN None
    ELSE Some(Pct2(Val(return_amount) + Val(cancel_amount), Val(gmv)))

\* MetricCalculator.calculate_cancel_rate
calculate_cancel_rate(cancel_amount, gmv) ==
    IF IsNone(cancel_amount) \/ IsNone(gmv) \/ gmv = Some(0) THEN None
    ELSE Some(Pct2(Val(cancel_amount), Val(gmv)))

\* MetricCalculator.calculate_return_rate
calculate_return_rate(return_amount, gmv) ==
    IF IsNone(return_amount) \/ IsNone(gmv) \/ gmv = Some(0) THEN None
    ELSE Some(Pct2(Val(return_amount), Val(gmv)))

\* MetricCalculator.calculate_rrc_after_cancel
calculate_rrc_after_cancel(return_amount, gmv, cancel_amount) ==
    IF IsNone(return_amount) \/ IsNone(gmv) \/ IsNone(cancel_amount) THEN None
    ELSE LET gmv_after_cancel == Val(gmv) - Val(cancel_amount)
         IN  IF gmv_after_cancel = 0 THEN None
             ELSE Some(Pct2(Val(return_amount), gmv_after_cancel))

\* An Optional rounded value (hundredths) as an Optional float.
OptHundredths(o) == IF IsNone(o) THEN None ELSE Some(Hundredths(Val(o)))

-----------------------------------------------------------------------------
(* MonthlyMetrics (data_schema.py 313-351) *)

\* Python truthiness of an Optional number: None and 0 are falsy.
Truthy(o) == IsSome(o) /\ Val(o) # 0
\* (x or 0)
OrZero(o) == IF Truthy(o) THEN Val(o) ELSE 0

\* The keyword arguments a call site may leave out take the field's default;
\* non_paid_traffic has no default, so a call site that leaves it out passes None
\* here and the constructor refuses it.
MonthlyMetricsDefaults ==
    [orders |-> None, gmv_units |-> None, atv |-> None, aur |-> None,
     cancel_amount |-> None, return_amount |-> None, total_refund_amount |-> None,
     cancel_rate |-> None, return_rate |-> None, rrc |-> None,
     rrc_after_cancel |-> None,
     ly_gmv |-> None, ly_net |-> None, ly_uv |-> None,
     yoy_growth |-> None, mom_growth |-> None]

OptGe0(o) == IsNone(o) \/ Val(o) >= 0
OptRatGe0(o) == IsNone(o) \/ RatLeq(Zero, Val(o))
OptPct(o) == IsNone(o) \/ (RatLeq(Zero, Val(o)) /\ RatLeq(Val(o), Rat(100, 1)))

\* The Field(ge=.., le=..) constraints and the required fields of MonthlyMetrics.
MonthlyMetricsValid(f) ==
    /\ f.month >= 1 /\ f.month <= 12
    /\ f.gmv >= 0 /\ f.net >= 0 /\ f.uv >= 0 /\ f.buyers >= 0
    /\ OptGe0(f.orders) /\ OptGe0(f.gmv_units)
    /\ RatLeq(Zero, f.aov)
    /\ OptRatGe0(f.atv) /\ OptRatGe0(f.aur)
    /\ RatLeq(Zero, f.cr) /\ RatLeq(f.cr, Rat(100, 1))
    /\ f.paid_traffic >= 0 /\ f.free_traffic >= 0
    /\ IsSome(f.non_paid_traffic) /\ Val(f.non_paid_traffic) >= 0
    /\ OptGe0(f.cancel_amount) /\ OptGe0(f.return_amount)
    /\ OptGe0(f.total_refund_amount)
    /\ OptPct(f.cancel_rate) /\ OptPct(f.return_rate)
    /\ OptPct(f.rrc) /\ OptPct(f.rrc_after_cancel)

\* MonthlyMetrics(**f): the validated object, or pydantic's ValidationError.
\* In the object non_paid_traffic is an int.
MonthlyMetrics(f) ==
    IF MonthlyMetricsValid(f)
    THEN Returned(Some([f EXCEPT !.non_paid_traffic = Val(f.non_paid_traffic)]))
    ELSE Raised("ValidationError")

-----------------------------------------------------------------------------
(* Channel hierarchy composer and core business composer *)

\* Optional sum: present only if both terms are.
OptAdd(a, b) == IF IsSome(a) /\ IsSome(b) THEN Some(Val(a) + Val(b)) ELSE None

\* The body shared by calculate_total_channel (channel_aggregator.py 31-108),
\* calculate_dtc_channel (125-202) and calculate_core_business
\* (core_business_calculator.py 166-266). a and b are Optional MonthlyMetrics.
\* with_units: calculate_core_business also sums gmv_units and derives aur; the
\* two channel composers leave both at their default.
SumOfTwo(a, b, channel, with_units) ==
    IF IsNone(a) \/ IsNone(b) THEN Returned(None)
    ELSE IF Val(a).year # Val(b).year \/ Val(a).month # Val(b).month THEN Returned(None)
    ELSE
    LET x == Val(a)
        y == Val(b)
        cancel_amount == OptAdd(x.cancel_amount, y.cancel_amount)
        return_amount == OptAdd(x.return_amount, y.return_amount)
        orders == OptAdd(x.orders, y.orders)
        gmv_units == IF with_units THEN OptAdd(x.gmv_units, y.gmv_units) ELSE None
        gmv == x.gmv + y.gmv
        uv == x.uv + y.uv
        buyers == x.buyers + y.buyers
        \* the refund block runs only if both sums are truthy and gmv > 0
        refunds == Truthy(cancel_amount) /\ Truthy(return_amount) /\ gmv > 0
        made == MonthlyMetrics(
            [MonthlyMetricsDefaults EXCEPT
                !.orders = orders,
                !.gmv_units = gmv_units,
                !.cancel_amount = cancel_amount,
                !.return_amount = return_amount,
                !.total_refund_amount =
                    IF Truthy(cancel_amount) /\ Truthy(return_amount)
                    THEN Some(OrZero(cancel_amount) + OrZero(return_amount))
                    ELSE None] @@
            [year |-> x.year, month |-> x.month, channel |-> channel,
             gmv |-> gmv, net |-> x.net + y.net, uv |-> uv, buyers |-> buyers,
             aov |-> Zero, cr |-> Zero,
             paid_traffic |-> x.paid_traffic + y.paid_traffic,
             free_traffic |-> x.free_traffic + y.free_traffic,
             non_paid_traffic |-> Some(x.non_paid_traffic + y.non_paid_traffic)])
    IN  IF made.kind # "returned" THEN made
        ELSE Returned(Some(
            \* the derived fields are assigned after construction (not validated)
            [Val(made.val) EXCEPT
                !.aov = IF Truthy(orders) /\ Val(orders) > 0
                        THEN Rat(gmv, Val(orders)) ELSE Zero,
                !.atv = IF buyers # 0 /\ buyers > 0
                        THEN Some(Rat(gmv, buyers)) ELSE None,
                !.aur = IF with_units /\ Truthy(gmv_units) /\ Val(gmv_units) > 0
                        THEN Some(Rat(gmv, Val(gmv_units))) ELSE None,
                !.cr = IF uv # 0 /\ uv > 0 THEN Rat(100 * buyers, uv) ELSE Zero,
                !.cancel_rate = IF refunds
                    THEN OptHundredths(calculate_cancel_rate(cancel_amount, Some(gmv)))
                    ELSE None,
                !.return_rate = IF refunds
                    THEN OptHundredths(calculate_return_rate(return_amount, Some(gmv)))
                    ELSE None,
                !.rrc = IF refunds
                    THEN OptHundredths(calculate_rrc(return_amount, cancel_amount, Some(gmv)))
                    ELSE None,
                !.rrc_after_cancel = IF refunds
                    THEN OptHundredths(calculate_rrc_after_cancel(return_amount, Some(gmv),
                                                                  cancel_amount))
                    ELSE None]))

\* ChannelAggregator.calculate_total_channel
calculate_total_channel(pfs, dtc_m) == SumOfTwo(pfs, dtc_m, "TOTAL", FALSE)

\* calculate_dtc_channel that compares the years of its inputs only.
calculate_dtc_channel_mut(wbtq_metric, ofs_metric) ==
    IF IsSome(wbtq_metric) /\ IsSome(ofs_metric)
    THEN SumOfTwo(wbtq_metric,
                  Some([Val(ofs_metric) EXCEPT !.month = Val(wbtq_metric).month]),
                  "DTC", FALSE)
    ELSE Returned(None)

\* ChannelAggregator.calculate_dtc_channel
calculate_dtc_channel(wbtq_metric, ofs_metric) ==
    SumOfTwo(wbtq_metric, ofs_metric, "DTC", FALSE)

\* calculate_core_business that takes the visitor count of the platform channel alone.
calculate_core_business_mut(pfs, dtc_excl_ff_sc_metric) ==
    LET r == SumOfTwo(pfs, dtc_excl_ff_sc_metric, "CORE_BUSINESS", TRUE)
    IN  IF r.kind = "returned" /\ IsSome(r.val)
        THEN Returned(Some([Val(r.val) EXCEPT !.uv = Val(pfs).uv]))
        ELSE r

\* CoreBusinessCalculator.calculate_core_business
calculate_core_business(pfs, dtc_excl_ff_sc_metric) ==
    SumOfTwo(pfs, dtc_excl_ff_sc_metric, "CORE_BUSINESS", TRUE)

\* A call of calculate_total_channel that builds the total inside its first
\* argument (total = pfs_metric; total.gmv += ...) instead of in a new object.
total_channel_call_mut(pfs, dtc_m) ==
    LET r == calculate_total_channel(pfs, dtc_m)
    IN  [ret |-> r,
         pfs_metric |-> IF r.kind = "returned" /\ IsSome(r.val) THEN r.val ELSE pfs,
         dtc_metric |-> dtc_m]

\* What a call of calculate_total_channel leaves behind: its return value and its
\* two arguments, which are Python objects passed by reference. The function reads
\* them and assigns only to the new object `total`.
total_channel_call(pfs, dtc_m) ==
    [ret |-> calculate_total_channel(pfs, dtc_m),
     pfs_metric |-> pfs,
     dtc_metric |-> dtc_m]

\* The aggregates handed to the composers: valid MonthlyMetrics objects of a few
\* periods with a few counter profiles. The composers read the raw counters only;
\* the derived fields of the inputs are the values a caller passed.
ComposePeriods == { <<2025, 12>>, <<2025, 11>>, <<2026, 12>> }
ComposeChannels == { "PFS", "DTC", "WBTQ", "OFS", "DTC_EXCL_FF_SC" }

Counters(gmv, net, uv, buyers, orders, gmv_units, traffic, cancel_amount, return_amount) ==
    [gmv |-> gmv, net |-> net, uv |-> uv, buyers |-> buyers, orders |-> orders,
     gmv_units |-> gmv_units, paid_traffic |-> traffic, free_traffic |-> traffic + 1,
     non_paid_traffic |-> traffic, cancel_amount |-> cancel_amount,
     return_amount |-> return_amount]

CounterProfiles ==
    { Counters(0, 0, 0, 0, None, None, 0, None, None),
      Counters(4, 3, 2, 1, Some(2), Some(3), 1, Some(0), Some(1)),
      Counters(6, 5, 4, 2, Some(0), Some(0), 2, Some(1), Some(2)),
      Counters(2, 2, 0, 0, Some(1), None, 0, Some(3), None),
      Counters(1, 1, 3, 3, Some(3), Some(1), 3, Some(2), Some(1)) }

InputMetric(p, ch, c) ==
    [MonthlyMetricsDefaults EXCEPT
        !.orders = c.orders, !.gmv_units = c.gmv_units,
        !.cancel_amount = c.cancel_amount, !.return_amount = c.return_amount] @@
    [year |-> p[1], month |-> p[2], channel |-> ch,
     gmv |-> c.gmv, net |-> c.net, uv |-> c.uv, buyers |-> c.buyers,
     aov |-> Zero, cr |-> Zero,
     paid_traffic |-> c.paid_traffic, free_traffic |-> c.free_traffic,
     non_paid_traffic |-> c.non_paid_traffic]

\* The argument pairs: (PFS, DTC), (WBTQ, OFS), (PFS, DTC_EXCL_FF_SC), either
\* possibly missing.
ChannelPairs == { <<"PFS", "DTC">>, <<"WBTQ", "OFS">>, <<"PFS", "DTC_EXCL_FF_SC">> }
OptInputs(ch) ==
    {None} \cup { Some(InputMetric(p, ch, c)) : p \in ComposePeriods, c \in CounterProfiles }

ComposeInit ==
    /\ \E pair \in ChannelPairs :
          /\ pfs_metric \in OptInputs(pair[1])
          /\ dtc_metric \in OptInputs(pair[2])
    /\ total = NotCalled
    /\ total_prev = NotCalled
    /\ dtc = NotCalled
    /\ core_business = NotCalled

ComposeIdle ==
    /\ pfs_metric = None
    /\ dtc_metric = None
    /\ total = NotCalled
    /\ total_prev = NotCalled
    /\ dtc = NotCalled
    /\ core_business = NotCalled

CalculateTotalChannel ==
    LET call == total_channel_call(pfs_metric, dtc_metric)
    IN  /\ total' = call.ret
        /\ total_prev' = total
        /\ pfs_metric' = call.pfs_metric
        /\ dtc_metric' = call.dtc_metric
        /\ UNCHANGED <<dtc, core_business>> /\ UNCHANGED notCompose

CalculateDtcChannel ==
    /\ dtc' = calculate_dtc_channel(pfs_metric, dtc_metric)
    /\ UNCHANGED <<pfs_metric, dtc_metric, total, total_prev, core_business>>
    /\ UNCHANGED notCompose

CalculateCoreBusiness ==
    /\ core_business' = calculate_core_business(pfs_metric, dtc_metric)
    /\ UNCHANGED <<pfs_metric, dtc_metric, total, total_prev, dtc>>
    /\ UNCHANGED notCompose

-----------------------------------------------------------------------------
(* Daily records (TargetMetric) and the DataFrame built from them.
   DataFrame([m.dict() for m in daily_metrics]) has one row per record and one
   column per field, so every `'col' in df.columns` test of the aggregators is
   true; a field that is None is NaN in its column. *)

RECURSIVE SumCol(_, _)
\* df[col].fillna(0).sum()
SumCol(df, col) ==
    IF df = <<>> THEN 0
    ELSE (IF IsNone(Head(df)[col]) THEN 0 ELSE Val(Head(df)[col])) + SumCol(Tail(df), col)

RECURSIVE FilterRows(_, _, _, _)
\* df[(df['year'] == year) & (df['month'] == month) & (df['channel'] == channel)]
FilterRows(df, year, month, channel) ==
    IF df = <<>> THEN <<>>
    ELSE LET r == Head(df)
             rest == FilterRows(Tail(df), year, month, channel)
         IN  IF r.date.year = year /\ r.date.month = month /\ r.channel = channel
             THEN <<r>> \o rest ELSE rest

RECURSIVE FilterYtd(_, _, _, _)
\* df[(df['year'] == year) & (df['month'] <= through_month) & (df['channel'] == channel)]
FilterYtd(df, year, through_month, channel) ==
    IF df = <<>> THEN <<>>
    ELSE LET r == Head(df)
             rest == FilterYtd(Tail(df), year, through_month, channel)
         IN  IF r.date.year = year /\ r.date.month <= through_month /\ r.channel = channel
             THEN <<r>> \o rest ELSE rest

\* df[col] = df[col] - amount on a float column: NaN stays NaN.
SubtractFromCol(df, col, amount) ==
    [i \in 1 .. Len(df) |->
        [df[i] EXCEPT ![col] = IF IsNone(@) THEN None ELSE Some(Val(@) - amount)]]

Max(a, b) == IF a >= b THEN a ELSE b

\* The sums and derived ratios DataAggregator.aggregate_monthly (calculator.py
\* 301-331), calculate_ytd (399-428) and aggregate_monthly_with_exclusion
\* (core_business_calculator.py 355-390) compute from the selected rows, as the
\* keyword arguments they hand to MonthlyMetrics. clamp_uv: the exclusion engine
\* takes max(0, .) of the visitor sum. non_paid_traffic: what the call site passes
\* (None where it passes nothing).
AggregateKwargs(rows, year, month, channel, clamp_uv, non_paid_traffic) ==
    LET gmv == SumCol(rows, "gmv")
        net == SumCol(rows, "net")
        uv == IF clamp_uv THEN Max(0, SumCol(rows, "uv")) ELSE SumCol(rows, "uv")
        buyers == SumCol(rows, "buyers")
        orders == SumCol(rows, "orders")
        gmv_units == SumCol(rows, "gmv_units")
        aov_r == calculate_aov(Some(gmv), Some(orders))
        cr_r == calculate_cr(Some(buyers), Some(uv))
        cancel_amount == SumCol(rows, "cancel_amount")
        return_amount == SumCol(rows, "return_amount")
        rates == gmv > 0
    IN  [MonthlyMetricsDefaults EXCEPT
            !.orders = Some(orders),
            !.gmv_units = Some(gmv_units),
            \* calculate_atv / calculate_aur: None on a zero denominator
            !.atv = OptHundredths(calculate_atv(Some(gmv), Some(buyers))),
            !.aur = OptHundredths(calculate_aur(Some(gmv), Some(gmv_units))),
            !.cancel_amount = Some(cancel_amount),
            !.return_amount = Some(return_amount),
            !.total_refund_amount = Some(cancel_amount + return_amount),
            !.rrc = IF rates
                THEN OptHundredths(calculate_rrc(Some(return_amount), Some(cancel_amount),
                                                 Some(gmv)))
                ELSE None,
            !.cancel_rate = IF rates
                THEN OptHundredths(calculate_cancel_rate(Some(cancel_amount), Some(gmv)))
                ELSE None,
            !.return_rate = IF rates
                THEN OptHundredths(calculate_return_rate(Some(return_amount), Some(gmv)))
                ELSE None,
            !.rrc_after_cancel = IF rates
                THEN OptHundredths(calculate_rrc_after_cancel(Some(return_amount), Some(gmv),
                                                              Some(cancel_amount)))
                ELSE None] @@
        [year |-> year, month |-> month, channel |-> channel,
         gmv |-> gmv, net |-> net, uv |-> uv, buyers |-> buyers,
         \* (calculate_aov(gmv, orders) or 0.0) if orders else 0.0
         aov |-> IF orders # 0 /\ Truthy(aov_r) THEN Hundredths(Val(aov_r)) ELSE Zero,
         \* calculate_cr(buyers, uv) or 0.0
         cr |-> IF Truthy(cr_r) THEN Hundredths(Val(cr_r)) ELSE Zero,
         paid_traffic |-> SumCol(rows, "paid_traffic"),
         free_traffic |-> SumCol(rows, "free_traffic"),
         non_paid_traffic |-> non_paid_traffic]

\* DataAggregator.aggregate_monthly. The MonthlyMetrics(...) call at 333-356
\* passes no non_paid_traffic.
aggregate_monthly(df, year, month, channel) ==
    IF df = <<>> THEN Returned(None)
    ELSE LET monthly_df == FilterRows(df, year, month, channel)
         IN  IF monthly_df = <<>> THEN Returned(None)
             ELSE MonthlyMetrics(AggregateKwargs(monthly_df, year, month, channel,
                                                 FALSE, None))

\* DataAggregator.calculate_ytd with an explicit through_month. The
\* MonthlyMetrics(...) call at 430-453 passes no non_paid_traffic.
calculate_ytd(df, year, channel, through_month) ==
    IF df = <<>> THEN Returned(None)
    ELSE LET ytd_df == FilterYtd(df, year, through_month, channel)
         IN  IF ytd_df = <<>> THEN Returned(None)
             ELSE MonthlyMetrics(AggregateKwargs(ytd_df, year, through_month, channel,
                                                 FALSE, None))

\* The rows after the exclusion block (core_business_calculator.py 326-353): the
\* month's total of each excluded sub-contribution is subtracted from the column,
\* that is, from every row of the month.
ExcludedRows(monthly_df, channel, config) ==
    LET ff == config.exclude_ff /\ channel = "DTC"
        sc == config.exclude_social /\ channel = "DTC"
        after_ff ==
            IF ff
            THEN SubtractFromCol(
                   SubtractFromCol(
                     SubtractFromCol(monthly_df, "net", SumCol(monthly_df, "dtc_ff_net")),
                     "gmv", SumCol(monthly_df, "dtc_ff_gmv")),
                   "uv", SumCol(monthly_df, "dtc_ff_traffic"))
            ELSE monthly_df
    IN  IF sc
        THEN SubtractFromCol(
               SubtractFromCol(
                 SubtractFromCol(after_ff, "net", SumCol(after_ff, "dtc_social_net")),
                 "gmv", SumCol(after_ff, "dtc_social_gmv")),
               "uv", SumCol(after_ff, "dtc_social_traffic"))
        ELSE after_ff

\* The channel tag of the exclusion engine's result (392-398).
ResultChannel(channel, config) ==
    IF channel = "DTC"
    THEN (IF config.exclude_ff /\ config.exclude_social THEN "DTC_EXCL_FF_SC"
          ELSE IF config.exclude_ff THEN "DTC_EXCL_FF"
          ELSE channel)
    ELSE channel

\* CoreBusinessCalculator.aggregate_monthly_with_exclusion. The frame has no
\* non_paid_traffic column, so the sum of the empty default series, 0, is passed.
aggregate_monthly_with_exclusion(recs, year, month, channel, config) ==
    IF recs = <<>> THEN Returned(None)
    ELSE LET monthly_df == FilterRows(recs, year, month, channel)
         IN  IF monthly_df = <<>> THEN Returned(None)
             ELSE MonthlyMetrics(
                    AggregateKwargs(ExcludedRows(monthly_df, channel, config),
                                    year, month, ResultChannel(channel, config),
                                    TRUE, Some(0)))

-----------------------------------------------------------------------------
(* FiscalYearAggregator (fiscal_calculator.py) *)

\* aggregate_fiscal_year_monthly with the comparison of a plausible slip (> for >=).
aggregate_fiscal_year_monthly_mut(df, fy, fiscal_month, channel) ==
    IF df = <<>> THEN Returned(None)
    ELSE LET cal_year == IF fiscal_month > 4 THEN fy - 1 ELSE fy
             cal_month == fiscal_month
             monthly_df == FilterRows(df, cal_year, cal_month, channel)
             net == SumCol(monthly_df, "net")
             uv == SumCol(monthly_df, "uv")
             buyers == SumCol(monthly_df, "buyers")
         IN  IF monthly_df = <<>> THEN Returned(None)
             ELSE MonthlyMetrics(
                    MonthlyMetricsDefaults @@
                    [year |-> cal_year, month |-> cal_month, channel |-> channel,
                     gmv |-> SumCol(monthly_df, "gmv"), net |-> net,
                     uv |-> uv, buyers |-> buyers,
                     aov |-> IF buyers > 0 THEN Rat(net, buyers) ELSE Zero,
                     cr |-> IF uv > 0 THEN Rat(100 * buyers, uv) ELSE Zero,
                     paid_traffic |-> SumCol(monthly_df, "paid_traffic"),
                     free_traffic |-> SumCol(monthly_df, "free_traffic"),
                     non_paid_traffic |-> Some(SumCol(monthly_df, "free_traffic"))])

\* FiscalYearAggregator.aggregate_fiscal_year_monthly. aov and cr are not
\* rounded here. The frame has no non_paid_traffic column, so the free_traffic
\* sum is passed for it (99-104).
aggregate_fiscal_year_monthly(df, fy, fiscal_month, channel) ==
    IF df = <<>> THEN Returned(None)
    ELSE LET cal_year == IF fiscal_month >= 4 THEN fy - 1 ELSE fy
             cal_month == fiscal_month
             monthly_df == FilterRows(df, cal_year, cal_month, channel)
             net == SumCol(monthly_df, "net")
             uv == SumCol(monthly_df, "uv")
             buyers == SumCol(monthly_df, "buyers")
         IN  IF monthly_df = <<>> THEN Returned(None)
             ELSE MonthlyMetrics(
                    MonthlyMetricsDefaults @@
                    [year |-> cal_year, month |-> cal_month, channel |-> channel,
                     gmv |-> SumCol(monthly_df, "gmv"), net |-> net,
                     uv |-> uv, buyers |-> buyers,
                     aov |-> IF buyers > 0 THEN Rat(net, buyers) ELSE Zero,
                     cr |-> IF uv > 0 THEN Rat(100 * buyers, uv) ELSE Zero,
                     paid_traffic |-> SumCol(monthly_df, "paid_traffic"),
                     free_traffic |-> SumCol(monthly_df, "free_traffic"),
                     non_paid_traffic |-> Some(SumCol(monthly_df, "free_traffic"))])

RECURSIVE FiscalMonthlyMetrics(_, _, _, _)
\* The loop of calculate_fiscal_ytd (159-165), fm = 1 .. through: the outcomes of
\* aggregate_fiscal_year_monthly that are aggregates, in loop order; the first
\* exception ends the loop and is the outcome.
FiscalMonthlyMetrics(df, fy, channel, through) ==
    IF through = 0 THEN Returned(<<>>)
    ELSE LET before == FiscalMonthlyMetrics(df, fy, channel, through - 1)
             metric == aggregate_fiscal_year_monthly(df, fy, through, channel)
         IN  IF before.kind # "returned" THEN before
             ELSE IF metric.kind # "returned" THEN metric
             ELSE IF IsSome(metric.val) THEN Returned(before.val \o <<Val(metric.val)>>)
             ELSE before

RECURSIVE SumField(_, _)
\* sum(m.field for m in monthly_metrics)
SumField(ms, field) ==
    IF ms = <<>> THEN 0 ELSE Head(ms)[field] + SumField(Tail(ms), field)

\* FiscalYearAggregator.calculate_fiscal_ytd with an explicit through_fiscal_month.
calculate_fiscal_ytd(df, fy, channel, through_fiscal_month) ==
    IF df = <<>> THEN Returned(None)
    ELSE LET collected == FiscalMonthlyMetrics(df, fy, channel, through_fiscal_month)
             monthly_metrics == collected.val
             net == SumField(monthly_metrics, "net")
             uv == SumField(monthly_metrics, "uv")
             buyers == SumField(monthly_metrics, "buyers")
             last_metric == monthly_metrics[Len(monthly_metrics)]
         IN  IF collected.kind # "returned" THEN collected
             ELSE IF monthly_metrics = <<>> THEN Returned(None)
             ELSE MonthlyMetrics(
                    MonthlyMetricsDefaults @@
                    [year |-> last_metric.year, month |-> last_metric.month,
                     channel |-> channel,
                     gmv |-> SumField(monthly_metrics, "gmv"), net |-> net,
                     uv |-> uv, buyers |-> buyers,
                     aov |-> IF buyers > 0 THEN Rat(net, buyers) ELSE Zero,
                     cr |-> IF uv > 0 THEN Rat(100 * buyers, uv) ELSE Zero,
                     paid_traffic |-> SumField(monthly_metrics, "paid_traffic"),
                     free_traffic |-> SumField(monthly_metrics, "free_traffic"),
                     non_paid_traffic |->
                         Some(SumField(monthly_metrics, "non_paid_traffic"))])

-----------------------------------------------------------------------------
(* Cross-source merger (get_monthly_targets.py). A frame is a sequence of rows;
   a counter that is NaN, or whose column a frame lacks, is None. *)

MergeCounters ==
    {"gmv", "net", "net_units", "gmv_units", "uv", "buyers", "free_traffic", "paid_traffic"}

\* A row of a merged frame. c: the counters, a function on MergeCounters.
Row(channel, year, month, c, days, source) ==
    [channel |-> channel, year |-> year, month |-> month, days |-> days,
     source |-> source] @@ c

\* Float arithmetic on frame cells: NaN propagates.
NaNSub(a, b) == IF IsSome(a) /\ IsSome(b) THEN Some(Val(a) - Val(b)) ELSE None
NaNAdd(a, b) == IF IsSome(a) /\ IsSome(b) THEN Some(Val(a) + Val(b)) ELSE None

\* df[df['channel'] == channel].iloc[0]
FirstRow(df, channel) ==
    df[CHOOSE i \in 1 .. Len(df) :
          /\ df[i].channel = channel
          /\ \A j \in 1 .. (i - 1) : df[j].channel # channel]
HasChannel(df, channel) == \E i \in 1 .. Len(df) : df[i].channel = channel

\* The channel tags of a merged frame in string order.
ChannelOrder == <<"DTC", "DTC_EXCL_FF", "DTC_FF", "PFS", "TOTAL">>
RECURSIVE RowsByChannel(_, _)
RowsByChannel(df, k) ==
    IF k > Len(ChannelOrder) THEN <<>>
    ELSE SelectSeq(df, LAMBDA r : r.channel = ChannelOrder[k]) \o RowsByChannel(df, k + 1)
\* df.sort_values(['channel'])
SortByChannel(df) == RowsByChannel(df, 1)

\* The TOTAL row both merges build (271-290, 630-649).
TotalRow(pfs, dtc_row) ==
    Row("TOTAL", pfs.year, pfs.month,
        [c \in MergeCounters |-> NaNAdd(pfs[c], dtc_row[c])],
        Some(Max(Val(pfs.days), Val(dtc_row.days))), "calculated")

\* The body shared by _merge_and_calculate and _merge_and_calculate_ytd.
\* df_db_: a non-empty frame; df_ff_: None or [rows, columns], a non-empty frame
\* of DTC_FF rows and the counter columns it has. minus: the counters
\* the DTC_EXCL_FF row takes as DTC minus the first FF row; guarded: those of
\* them that are subtracted only if the FF frame has the column.
MergeBody(df_db_, df_ff_, minus, guarded) ==
    LET concat == IF IsSome(df_ff_) THEN df_db_ \o Val(df_ff_).rows ELSE df_db_
        dtc_row == FirstRow(concat, "DTC")
        ff0 == Val(df_ff_).rows[1]
        key_error ==
            /\ HasChannel(concat, "DTC") /\ IsSome(df_ff_)
            /\ \E c \in minus \ guarded : c \notin Val(df_ff_).columns
        dtc_excl_ff ==
            Row("DTC_EXCL_FF", dtc_row.year, dtc_row.month,
                [c \in MergeCounters |->
                    IF c \in minus /\ IsSome(df_ff_) /\ c \in Val(df_ff_).columns
                    THEN NaNSub(dtc_row[c], ff0[c])
                    ELSE dtc_row[c]],
                dtc_row.days, "calculated")
        with_excl ==
            IF HasChannel(concat, "DTC")
            THEN concat \o <<dtc_excl_ff>> ELSE concat
        with_total ==
            IF HasChannel(with_excl, "PFS") /\ HasChannel(with_excl, "DTC")
            THEN with_excl \o <<TotalRow(FirstRow(with_excl, "PFS"),
                                         FirstRow(with_excl, "DTC"))>>
            ELSE with_excl
    IN  IF key_error THEN Raised("KeyError")
        ELSE Returned(Some(SortByChannel(with_total)))

\* _merge_and_calculate (225-298)
merge_and_calculate(df_db_, df_ff_) ==
    MergeBody(df_db_, df_ff_, {"gmv", "net", "uv"}, {})

\* _merge_and_calculate_ytd (588-657)
merge_and_calculate_ytd(df_db_, df_ff_) ==
    MergeBody(df_db_, df_ff_,
              {"gmv", "net", "net_units", "gmv_units", "uv", "buyers"},
              {"net_units", "gmv_units", "buyers"})

get_monthly_targets_mut(df_db_, df_ff_) ==
    IF IsNone(df_db_) \/ df_db_ = Some(<<>>) THEN Returned(None)
    ELSE LET out == merge_and_calculate(Val(df_db_), df_ff_)
         IN  IF IsNone(df_ff_) /\ out.kind = "returned"
             THEN Returned(Some(SelectSeq(Val(out.val),
                                          LAMBDA r : r.channel # "DTC_EXCL_FF")))
             ELSE out

\* get_monthly_targets (66-80), given what the two readers returned.
get_monthly_targets(df_db_, df_ff_) ==
    IF IsNone(df_db_) \/ df_db_ = Some(<<>>) THEN Returned(None)
    ELSE merge_and_calculate(Val(df_db_), df_ff_)

\* get_ytd_targets that also gives up when the spreadsheet reader returned nothing.
get_ytd_targets_mut(df_db_, df_ff_) ==
    IF IsNone(df_db_) \/ df_db_ = Some(<<>>) \/ IsNone(df_ff_) THEN Returned(None)
    ELSE merge_and_calculate_ytd(Val(df_db_), df_ff_)

\* get_ytd_targets (367-380), given what the two readers returned.
get_ytd_targets(df_db_, df_ff_) ==
    IF IsNone(df_db_) \/ df_db_ = Some(<<>>) THEN Returned(None)
    ELSE merge_and_calculate_ytd(Val(df_db_), df_ff_)

\* The counter columns the readers take from the target sheet.
SheetCounters == {"gmv", "net", "uv", "buyers", "gmv_units", "net_units"}

\* The rows of the sheet of one month that carry an FF target (181-185, 529-533).
FFRowsOf(rows, year, month) ==
    SelectSeq(rows, LAMBDA r : r.year = year /\ r.month = month
                               /\ r.channel \in {"FF", "DTC_FF"})

\* _read_ff_from_excel (128-222). sheet: None (no file or no target sheet) or
\* [rows, columns]. The month's FF rows in sheet order, tagged DTC_FF, with the
\* counter columns the sheet has; a sheet without a gmv or net column raises
\* KeyError at 212-213, which the function catches and answers with None.
read_ff_from_excel(sheet, year, month) ==
    IF IsNone(sheet) THEN None
    ELSE LET kept == FFRowsOf(Val(sheet).rows, year, month)
             columns == Val(sheet).columns
         IN  IF kept = <<>> THEN None
             ELSE IF ~({"gmv", "net"} \subseteq columns) THEN None
             ELSE Some([rows |->
                          [i \in 1 .. Len(kept) |->
                              Row("DTC_FF", year, month,
                                  [c \in MergeCounters |->
                                      IF c \in columns THEN kept[i][c] ELSE None],
                                  None, None)],
                        columns |-> columns \cap SheetCounters])

MaxLoopIterations == 24

RECURSIVE MonthsLoop(_, _, _, _, _, _)
\* The while loop of _read_ytd_ff_from_excel (508-525) from the top of an
\* iteration: the entry test, the append, the step to the next month and the exit
\* test. fuel: the iterations the loop is followed for; a loop still running
\* after them is reported as not terminated.
MonthsLoop(current_year, current_month, year, month, months, fuel) ==
    IF fuel = 0 THEN [terminated |-> FALSE, months |-> months]
    ELSE IF current_year = year /\ current_month > month
    THEN [terminated |-> TRUE, months |-> months]
    ELSE LET appended == Append(months, <<current_year, current_month>>)
             next_year == IF current_month = 12 THEN current_year + 1 ELSE current_year
             next_month == IF current_month = 12 THEN 1 ELSE current_month + 1
         IN  IF next_year > year \/ (next_year = year /\ next_month > month)
             THEN [terminated |-> TRUE, months |-> appended]
             ELSE MonthsLoop(next_year, next_month, year, month, appended, fuel - 1)

\* months_to_sum that starts at April of the year asked for.
months_to_sum_mut(year, month) ==
    MonthsLoop(get_fy_start_date_mut(year, month).year,
               get_fy_start_date_mut(year, month).month,
               year, month, <<>>, MaxLoopIterations).months

\* months_to_sum of _read_ytd_ff_from_excel (501-525): the months the loop lists
\* from the start of the fiscal year.
months_to_sum(year, month) ==
    MonthsLoop(get_fy_start_date(year, month).year,
               get_fy_start_date(year, month).month,
               year, month, <<>>, MaxLoopIterations).months

RECURSIVE FFRowsOfMonths(_, _)
\* pd.concat of the FF rows of each month of the list, month by month (540-555).
FFRowsOfMonths(rows, months) ==
    IF months = <<>> THEN <<>>
    ELSE FFRowsOf(rows, Head(months)[1], Head(months)[2])
         \o FFRowsOfMonths(rows, Tail(months))

\* _read_ytd_ff_from_excel (464-585): one DTC_FF row holding the column sums
\* over the window's FF rows (NaN cells are skipped by sum()). A sheet without
\* one of the six counter columns raises (KeyError for gmv and net,
\* AttributeError on `.get(col, 0).sum()` for the others), which the function
\* catches and answers with None.
read_ytd_ff_from_excel(sheet, year, month) ==
    IF IsNone(sheet) THEN None
    ELSE LET months == months_to_sum(year, month)
             df_ff_all == FFRowsOfMonths(Val(sheet).rows, months)
         IN  IF df_ff_all = <<>> THEN None
             ELSE IF ~(SheetCounters \subseteq Val(sheet).columns) THEN None
             ELSE Some([rows |->
                          <<Row("DTC_FF", year, month,
                                [c \in MergeCounters |->
                                    IF c \in SheetCounters
                                    THEN Some(SumCol(df_ff_all, c)) ELSE Some(0)],
                                Some(Len(months)), "excel")>>,
                        columns |-> SheetCounters])

\* DataFrame.iterrows() into a dict keyed by channel (325-329, 683-687): of
\* several rows of one channel the last one stays.
RowsToDict(df) ==
    [ch \in { df[i].channel : i \in 1 .. Len(df) } |->
        df[CHOOSE i \in 1 .. Len(df) :
              /\ df[i].channel = ch
              /\ \A j \in (i + 1) .. Len(df) : df[j].channel # ch]]

\* get_monthly_targets_dict (302-331) and get_ytd_targets_dict (660-689), given
\* the outcome of the tabular function they call.
TargetsDict(out) ==
    IF out.kind # "returned" THEN out
    ELSE IF IsNone(out.val) THEN Returned(<<>>)
    ELSE Returned(RowsToDict(Val(out.val)))

-----------------------------------------------------------------------------
(* Inputs and operations of the aggregators *)

\* A daily record as the aggregators read it: the date, the channel and the
\* Optional counters of the daily KPI table (db_reader.py 164-192), the FF and
\* social parts the exclusion engine subtracts among them. sales = <<gmv, net>>, traffic = <<uv, buyers, orders,
\* gmv_units, paid_traffic, free_traffic>>, refunds = <<cancel_amount,
\* return_amount>>, ff = <<dtc_ff_gmv, dtc_ff_net, dtc_ff_traffic>>, social =
\* <<dtc_social_gmv, dtc_social_net, dtc_social_traffic>>.
TargetMetric(dt, channel, sales, traffic, refunds, ff, social) ==
    [date |-> dt, channel |-> channel,
     gmv |-> sales[1], net |-> sales[2],
     uv |-> traffic[1], buyers |-> traffic[2], orders |-> traffic[3],
     gmv_units |-> traffic[4], paid_traffic |-> traffic[5], free_traffic |-> traffic[6],
     cancel_amount |-> refunds[1], return_amount |-> refunds[2],
     dtc_ff_gmv |-> ff[1], dtc_ff_net |-> ff[2], dtc_ff_traffic |-> ff[3],
     dtc_social_gmv |-> social[1], dtc_social_net |-> social[2],
     dtc_social_traffic |-> social[3]]

\* TargetMetric.validate_buyers_not_exceed_uv, the one validator on the counters.
TargetMetricValid(r) ==
    (IsSome(r.buyers) /\ Truthy(r.uv)) => Val(r.buyers) <= Val(r.uv)

NoSub == <<None, None, None>>
\* The counter values one daily record may carry.
\* nothing recorded
ProfileEmpty ==
    <<<<None, None>>, <<None, None, None, None, None, None>>, <<None, None>>, NoSub, NoSub>>
\* a day with an FF part
ProfileFF ==
    <<<<Some(5), Some(4)>>, <<Some(4), Some(1), Some(1), Some(2), Some(1), Some(1)>>,
      <<Some(1), Some(1)>>, <<Some(1), Some(1), Some(1)>>, NoSub>>
\* a day with an FF and a social part, no refund data
ProfileFFSocial ==
    <<<<Some(6), Some(5)>>, <<Some(5), Some(1), Some(1), Some(2), Some(1), Some(2)>>,
      <<None, None>>, <<Some(1), Some(1), Some(1)>>, <<Some(1), Some(1), Some(1)>>>>
\* no visitors, an FF part larger than the day's own counters
ProfileNoVisitors ==
    <<<<Some(1), Some(1)>>, <<Some(0), Some(0), Some(0), Some(0), Some(0), Some(0)>>,
      <<Some(0), Some(0)>>, <<Some(2), Some(2), Some(1)>>, NoSub>>
\* visitors not recorded, cancellations above GMV
ProfileCancelHeavy ==
    <<<<Some(2), Some(2)>>, <<None, Some(2), Some(1), Some(1), None, None>>,
      <<Some(3), Some(1)>>, NoSub, NoSub>>
RecordProfiles ==
    { ProfileEmpty, ProfileFF, ProfileFFSocial, ProfileNoVisitors, ProfileCancelHeavy }

\* The FF and social parts are attached to DTC records only.
DailyRecord(dt, channel, p) ==
    TargetMetric(dt, channel, p[1], p[2], p[3],
                 IF channel = "DTC" THEN p[4] ELSE NoSub,
                 IF channel = "DTC" THEN p[5] ELSE NoSub)

AggYear == 2025
AggMonth == 12
MaxRecords == 2
\* Records of the selected month and channel, and a few of another month or
\* another channel.
AggRecords ==
    { r \in { DailyRecord(Date(AggYear, AggMonth, 1), "DTC", p) : p \in RecordProfiles }
            \cup { DailyRecord(Date(AggYear, AggMonth - 1, 1), "DTC", p) :
                     p \in {ProfileFF, ProfileNoVisitors} }
            \cup { DailyRecord(Date(AggYear, AggMonth, 1), "PFS", p) :
                     p \in {ProfileFF, ProfileNoVisitors} } :
        TargetMetricValid(r) }
SeqsUpTo(S, n) == UNION { [1 .. k -> S] : k \in 0 .. n }
ExclusionConfigs == [exclude_ff : BOOLEAN, exclude_social : BOOLEAN]

AggInit ==
    /\ daily_metrics \in SeqsUpTo(AggRecords, MaxRecords)
    /\ selector \in [year : {AggYear}, month : {AggMonth}, channel : {"DTC", "PFS"}]
    /\ exclusion_config \in ExclusionConfigs
    /\ monthly = NotCalled
    /\ ytd = NotCalled
    /\ monthly_excl = NotCalled
    /\ fiscal_monthly = NotCalled
    /\ fiscal_ytd = NotCalled

AggIdle ==
    /\ daily_metrics = <<>>
    /\ selector = [year |-> AggYear, month |-> AggMonth, channel |-> "DTC"]
    /\ exclusion_config = [exclude_ff |-> FALSE, exclude_social |-> FALSE]
    /\ monthly = NotCalled
    /\ ytd = NotCalled
    /\ monthly_excl = NotCalled
    /\ fiscal_monthly = NotCalled
    /\ fiscal_ytd = NotCalled

AggregateMonthly ==
    /\ monthly' = aggregate_monthly(daily_metrics, selector.year, selector.month,
                                    selector.channel)
    /\ UNCHANGED <<aggInputs, ytd, monthly_excl, fiscal_monthly, fiscal_ytd>>
    /\ UNCHANGED notAgg

CalculateYtd ==
    /\ ytd' = calculate_ytd(daily_metrics, selector.year, selector.channel, selector.month)
    /\ UNCHANGED <<aggInputs, monthly, monthly_excl, fiscal_monthly, fiscal_ytd>>
    /\ UNCHANGED notAgg

AggregateMonthlyWithExclusion ==
    /\ monthly_excl' = aggregate_monthly_with_exclusion(
                           daily_metrics, selector.year, selector.month,
                           selector.channel, exclusion_config)
    /\ UNCHANGED <<aggInputs, monthly, ytd, fiscal_monthly, fiscal_ytd>>
    /\ UNCHANGED notAgg

\* The fiscal aggregator's inputs: records of one fiscal year and its
\* neighbouring months.
FiscalYtdYear == 2025
MaxFiscalRecords == 2
FiscalRecordDates ==
    { Date(FiscalYtdYear - 1, 3, 1), Date(FiscalYtdYear - 1, 4, 1),
      Date(FiscalYtdYear - 1, 6, 1), Date(FiscalYtdYear - 1, 12, 1),
      Date(FiscalYtdYear, 1, 1), Date(FiscalYtdYear, 3, 1), Date(FiscalYtdYear, 6, 1) }
FiscalRecordProfiles == { ProfileFF, ProfileCancelHeavy }
FiscalRecords ==
    { DailyRecord(dt, "DTC", p) : dt \in FiscalRecordDates, p \in FiscalRecordProfiles }
    \cup { DailyRecord(Date(FiscalYtdYear - 1, 6, 1), "PFS", p) : p \in FiscalRecordProfiles }
ThroughMonths == {2, 3, 6, 12}

FiscalYtdInit ==
    /\ daily_metrics \in SeqsUpTo(FiscalRecords, MaxFiscalRecords)
    /\ selector \in [year : {FiscalYtdYear}, month : ThroughMonths, channel : {"DTC"}]
    /\ exclusion_config = [exclude_ff |-> FALSE, exclude_social |-> FALSE]
    /\ monthly = NotCalled
    /\ ytd = NotCalled
    /\ monthly_excl = NotCalled
    /\ fiscal_monthly = NotCalled
    /\ fiscal_ytd = NotCalled

\* The fiscal aggregator asked for one month of the fiscal year that starts in
\* the records' first April or of the next one.
FiscalMonthlyInit ==
    /\ daily_metrics \in SeqsUpTo(FiscalRecords, MaxFiscalRecords)
    /\ selector \in [year : {FiscalYtdYear, FiscalYtdYear + 1}, month : Months,
                     channel : {"DTC"}]
    /\ exclusion_config = [exclude_ff |-> FALSE, exclude_social |-> FALSE]
    /\ monthly = NotCalled
    /\ ytd = NotCalled
    /\ monthly_excl = NotCalled
    /\ fiscal_monthly = NotCalled
    /\ fiscal_ytd = NotCalled

AggregateFiscalYearMonthly ==
    /\ fiscal_monthly' = aggregate_fiscal_year_monthly(
                             daily_metrics, selector.year, selector.month, selector.channel)
    /\ UNCHANGED <<aggInputs, monthly, ytd, monthly_excl, fiscal_ytd>>
    /\ UNCHANGED notAgg

CalculateFiscalYtd ==
    /\ fiscal_ytd' = calculate_fiscal_ytd(daily_metrics, selector.year, selector.channel,
                                          selector.month)
    /\ UNCHANGED <<aggInputs, monthly, ytd, monthly_excl, fiscal_monthly>>
    /\ UNCHANGED notAgg

\* The merger's inputs. A database row is the monthly (or year-to-date) summary
\* of one channel; the readers return None instead of an empty frame
\* (get_monthly_targets.py 113-114, 181-183, 549-551).
MergeCounterValues(gmv, net, uv, buyers, units, traffic) ==
    [gmv |-> gmv, net |-> net, net_units |-> units, gmv_units |-> units,
     uv |-> uv, buyers |-> buyers, free_traffic |-> traffic, paid_traffic |-> traffic]
DbRow(channel, c) == Row(channel, AggYear, AggMonth, c, Some(2), "database")
DbDtcRows ==
    { DbRow("DTC", c) : c \in
        { MergeCounterValues(Some(10), Some(8), Some(8), Some(2), Some(4), Some(2)),
          MergeCounterValues(Some(5), Some(4), Some(4), Some(1), Some(2), Some(1)),
          MergeCounterValues(Some(11), Some(9), Some(9), Some(2), Some(4), Some(3)),
          MergeCounterValues(None, Some(1), Some(1), Some(1), None, Some(1)) } }
DbPfsRows ==
    { DbRow("PFS", MergeCounterValues(Some(7), Some(6), Some(5), Some(1), Some(3), Some(2))) }
DbFrames ==
    { <<d>> : d \in DbDtcRows } \cup { <<p>> : p \in DbPfsRows }
    \cup { <<p, d>> : p \in DbPfsRows, d \in DbDtcRows }
    \cup { <<d, p>> : p \in DbPfsRows, d \in DbDtcRows }

\* A row of the target sheet; the cell of a column the sheet lacks is None.
SheetRow(year, month, channel, gmv, net, uv, buyers, units) ==
    [year |-> year, month |-> month, channel |-> channel,
     gmv |-> gmv, net |-> net, uv |-> uv, buyers |-> buyers,
     gmv_units |-> units, net_units |-> units]

\* Rows of a sheet that has every counter column: FF targets of the month asked
\* for under both tags (one with an empty buyers cell), an FF target of the
\* month before, and a row of another channel.
SheetRows ==
    { SheetRow(AggYear, AggMonth, "DTC_FF", Some(2), Some(2), Some(2), Some(1), Some(1)),
      SheetRow(AggYear, AggMonth, "FF", Some(1), Some(1), Some(1), Some(1), Some(1)),
      SheetRow(AggYear, AggMonth, "DTC_FF", Some(2), Some(1), Some(1), None, Some(1)),
      SheetRow(AggYear, AggMonth - 1, "DTC_FF", Some(1), Some(1), Some(1), Some(1), Some(1)),
      SheetRow(AggYear, AggMonth, "PFS", Some(9), Some(9), Some(9), Some(9), Some(9)) }

\* Sheets that lack counter columns: no buyers and unit columns, no uv column
\* either, no net column.
NarrowSheets ==
    { [rows |-> <<SheetRow(AggYear, AggMonth, "FF", Some(1), Some(1), Some(1), None, None)>>,
       columns |-> {"gmv", "net", "uv"}],
      [rows |-> <<SheetRow(AggYear, AggMonth, "FF", Some(1), Some(1), None, None, None)>>,
       columns |-> {"gmv", "net"}],
      [rows |-> <<SheetRow(AggYear, AggMonth, "FF", Some(1), None, Some(1), None, None)>>,
       columns |-> {"gmv", "uv"}] }

MaxSheetRows == 2

\* What the spreadsheet can be: absent, a sheet with every counter column and
\* up to MaxSheetRows rows in any order, or a sheet lacking columns.
Sheets ==
    {None}
    \cup { Some([rows |-> r, columns |-> SheetCounters]) :
              r \in SeqsUpTo(SheetRows, MaxSheetRows) }
    \cup { Some(sh) : sh \in NarrowSheets }

\* The sheets the merger is compared with the exclusion engine on: absent,
\* empty, one FF row of the month, and those lacking columns.
MergeSheets ==
    { sh \in Sheets :
        IsSome(sh) =>
            /\ Len(Val(sh).rows) <= 1
            /\ \A i \in 1 .. Len(Val(sh).rows) :
                  Val(sh).rows[i].month = AggMonth /\ Val(sh).rows[i].channel # "PFS" }

\* The daily records the merger's inputs are compared against.
MergeRecords ==
    { DailyRecord(Date(AggYear, AggMonth, 1), "DTC", p) : p \in {ProfileFF, ProfileFFSocial} }

MergeInit ==
    /\ df_db \in {None} \cup { Some(f) : f \in DbFrames }
    /\ excel_sheet \in MergeSheets
    /\ df_ff = None
    /\ df_ff_ytd = None
    /\ monthly_targets = NotCalled
    /\ ytd_targets = NotCalled
    /\ monthly_targets_dict = NotCalled
    /\ ytd_targets_dict = NotCalled
    /\ daily_metrics \in SeqsUpTo(MergeRecords, MaxRecords)
    /\ selector = [year |-> AggYear, month |-> AggMonth, channel |-> "DTC"]
    /\ exclusion_config \in { [exclude_ff |-> TRUE, exclude_social |-> FALSE],
                             [exclude_ff |-> FALSE, exclude_social |-> FALSE] }
    /\ monthly = NotCalled
    /\ ytd = NotCalled
    /\ monthly_excl = NotCalled
    /\ fiscal_monthly = NotCalled
    /\ fiscal_ytd = NotCalled

MergeIdle ==
    /\ df_db = None
    /\ excel_sheet = None
    /\ df_ff = None
    /\ df_ff_ytd = None
    /\ monthly_targets = NotCalled
    /\ ytd_targets = NotCalled
    /\ monthly_targets_dict = NotCalled
    /\ ytd_targets_dict = NotCalled

\* The two sources of get_monthly_targets / get_ytd_targets for the period of
\* the selector, nothing called yet.
TargetsInit ==
    /\ df_db \in {None} \cup { Some(f) : f \in DbFrames }
    /\ excel_sheet \in Sheets
    /\ df_ff = None
    /\ df_ff_ytd = None
    /\ monthly_targets = NotCalled
    /\ ytd_targets = NotCalled
    /\ monthly_targets_dict = NotCalled
    /\ ytd_targets_dict = NotCalled

\* Whether the function returns at 70-72 / 372-374, before the sheet is read.
NoDbData == IsNone(df_db) \/ df_db = Some(<<>>)

GetMonthlyTargets ==
    /\ df_ff' = IF NoDbData THEN df_ff
                ELSE read_ff_from_excel(excel_sheet, selector.year, selector.month)
    /\ monthly_targets' = get_monthly_targets(df_db, df_ff')
    /\ UNCHANGED <<mergeInputs, df_ff_ytd, ytd_targets, monthly_targets_dict,
                   ytd_targets_dict, aggVars>>
    /\ UNCHANGED notMerge

GetYtdTargets ==
    /\ df_ff_ytd' = IF NoDbData THEN df_ff_ytd
                    ELSE read_ytd_ff_from_excel(excel_sheet, selector.year, selector.month)
    /\ ytd_targets' = get_ytd_targets(df_db, df_ff_ytd')
    /\ UNCHANGED <<mergeInputs, df_ff, monthly_targets, monthly_targets_dict,
                   ytd_targets_dict, aggVars>>
    /\ UNCHANGED notMerge

GetMonthlyTargetsDict ==
    /\ df_ff' = IF NoDbData THEN df_ff
                ELSE read_ff_from_excel(excel_sheet, selector.year, selector.month)
    /\ monthly_targets_dict' = TargetsDict(get_monthly_targets(df_db, df_ff'))
    /\ UNCHANGED <<mergeInputs, df_ff_ytd, monthly_targets, ytd_targets,
                   ytd_targets_dict, aggVars>>
    /\ UNCHANGED notMerge

GetYtdTargetsDict ==
    /\ df_ff_ytd' = IF NoDbData THEN df_ff_ytd
                    ELSE read_ytd_ff_from_excel(excel_sheet, selector.year, selector.month)
    /\ ytd_targets_dict' = TargetsDict(get_ytd_targets(df_db, df_ff_ytd'))
    /\ UNCHANGED <<mergeInputs, df_ff, monthly_targets, ytd_targets,
                   monthly_targets_dict, aggVars>>
    /\ UNCHANGED notMerge

-----------------------------------------------------------------------------
(* Fiscal growth: FiscalYearAggregator.calculate_fiscal_yoy / _mom.
   Of a MonthlyMetrics they read year, month, channel and net only. *)

\* The fields of a MonthlyMetrics the fiscal growth functions read.
FiscalMetric(year, month, channel, net) ==
    [year |-> year, month |-> month, channel |-> channel, net |-> net]

\* MonthlyMetrics.fiscal_year (property)
metric_fiscal_year(metric) == get_fiscal_year(Date(metric.year, metric.month, 1))

\* MonthlyMetrics.fiscal_month (property): the calendar month
metric_fiscal_month(metric) == metric.month

\* The search loop shared by calculate_fiscal_yoy and calculate_fiscal_mom: the
\* first metric of the list with the wanted fiscal year, fiscal month and the
\* channel of current_metric decides; its growth is not rounded.
fiscal_growth_over(current_metric_, all_metrics_, last_fiscal_year, last_fiscal_month) ==
    LET hits == { i \in 1 .. Len(all_metrics_) :
                    /\ metric_fiscal_year(all_metrics_[i]) = last_fiscal_year
                    /\ metric_fiscal_month(all_metrics_[i]) = last_fiscal_month
                    /\ all_metrics_[i].channel = current_metric_.channel }
    IN  IF hits = {} THEN None
        ELSE LET metric == all_metrics_[CHOOSE i \in hits : \A j \in hits : i <= j]
             IN  IF metric.net > 0
                 THEN Some(Rat((current_metric_.net - metric.net) * 100, metric.net))
                 ELSE None

\* FiscalYearAggregator.calculate_fiscal_yoy
calculate_fiscal_yoy(current_metric_, all_metrics_) ==
    fiscal_growth_over(current_metric_, all_metrics_,
                       metric_fiscal_year(current_metric_) - 1,
                       metric_fiscal_month(current_metric_))

\* FiscalYearAggregator.calculate_fiscal_mom
calculate_fiscal_mom(current_metric_, all_metrics_) ==
    IF metric_fiscal_month(current_metric_) = 1
    THEN fiscal_growth_over(current_metric_, all_metrics_,
                            metric_fiscal_year(current_metric_) - 1, 12)
    ELSE fiscal_growth_over(current_metric_, all_metrics_,
                            metric_fiscal_year(current_metric_),
                            metric_fiscal_month(current_metric_) - 1)

MaxMetrics == 2

\* The metrics whose growth is asked for: the first fiscal month (April), the
\* month after it, and January, with and without revenue.
CurrentMetrics ==
    { FiscalMetric(2026, 1, "DTC", n) : n \in {0, 3} } \cup
    { FiscalMetric(2025, 4, "DTC", n) : n \in {0, 3} } \cup
    { FiscalMetric(2025, 5, "DTC", 3) }

\* The metrics the list is drawn from: the months before and after those above,
\* one and two years back, with and without revenue, and another channel.
PoolMetrics ==
    { FiscalMetric(p[1], p[2], "DTC", n) :
        p \in { <<2024, 12>>, <<2025, 1>>, <<2025, 3>>, <<2025, 4>>,
                <<2025, 12>>, <<2026, 3>> },
        n \in {0, 2} } \cup
    { FiscalMetric(2025, 12, "PFS", 2), FiscalMetric(2025, 1, "PFS", 2) }

FiscalGrowthInit ==
    /\ current_metric \in CurrentMetrics
    /\ all_metrics \in SeqsUpTo(PoolMetrics, MaxMetrics)
    /\ fiscal_yoy = NotCalled
    /\ fiscal_mom = NotCalled

FiscalGrowthIdle ==
    /\ current_metric = FiscalMetric(2025, 4, "DTC", 0)
    /\ all_metrics = <<>>
    /\ fiscal_yoy = NotCalled
    /\ fiscal_mom = NotCalled

CalculateFiscalYoy ==
    /\ fiscal_yoy' = Returned(calculate_fiscal_yoy(current_metric, all_metrics))
    /\ UNCHANGED <<current_metric, all_metrics, fiscal_mom>>
    /\ UNCHANGED notFiscalGrowth

CalculateFiscalMom ==
    /\ fiscal_mom' = Returned(calculate_fiscal_mom(current_metric, all_metrics))
    /\ UNCHANGED <<current_metric, all_metrics, fiscal_yoy>>
    /\ UNCHANGED notFiscalGrowth

-----------------------------------------------------------------------------
(* Channel hierarchy over a list of aggregates:
   ChannelAggregator.calculate_channel_breakdown / validate_channel_hierarchy.
   A dict is a function on its keys. *)

\* dict.get(k): an Optional
DictGet(d, k) == IF k \in DOMAIN d THEN Some(d[k]) ELSE None
\* d[k] = v
DictSet(d, k, v) == [x \in DOMAIN d \cup {k} |-> IF x = k THEN v ELSE d[x]]

\* for metric in monthly_metrics: channels_by_type[metric.channel] = metric
\* (the last metric of a channel stays)
ChannelsByType(monthly_metrics_) ==
    [ch \in { monthly_metrics_[i].channel : i \in 1 .. Len(monthly_metrics_) } |->
        monthly_metrics_[CHOOSE i \in 1 .. Len(monthly_metrics_) :
            /\ monthly_metrics_[i].channel = ch
            /\ \A j \in (i + 1) .. Len(monthly_metrics_) :
                  monthly_metrics_[j].channel # ch]]

\* calculate_channel_breakdown that computes DTC and TOTAL only where the input
\* has none.
calculate_channel_breakdown_mut(monthly_metrics_) ==
    LET channels_by_type == ChannelsByType(monthly_metrics_)
        wbtq == DictGet(channels_by_type, "WBTQ")
        ofs == DictGet(channels_by_type, "OFS")
        dtc_out == IF IsSome(wbtq) /\ IsSome(ofs) /\ "DTC" \notin DOMAIN channels_by_type
                   THEN calculate_dtc_channel(wbtq, ofs)
                   ELSE Returned(None)
        with_dtc == IF dtc_out.kind = "returned" /\ IsSome(dtc_out.val)
                    THEN DictSet(channels_by_type, "DTC", Val(dtc_out.val))
                    ELSE channels_by_type
        pfs == DictGet(channels_by_type, "PFS")
        dtc_ == DictGet(with_dtc, "DTC")
        total_out == IF IsSome(pfs) /\ IsSome(dtc_) /\ "TOTAL" \notin DOMAIN channels_by_type
                     THEN calculate_total_channel(pfs, dtc_)
                     ELSE Returned(None)
    IN  IF dtc_out.kind # "returned" THEN dtc_out
        ELSE IF total_out.kind # "returned" THEN total_out
        ELSE Returned(IF IsSome(total_out.val)
                      THEN DictSet(with_dtc, "TOTAL", Val(total_out.val))
                      ELSE with_dtc)

\* ChannelAggregator.calculate_channel_breakdown
calculate_channel_breakdown(monthly_metrics_) ==
    LET channels_by_type == ChannelsByType(monthly_metrics_)
        wbtq == DictGet(channels_by_type, "WBTQ")
        ofs == DictGet(channels_by_type, "OFS")
        dtc_out == IF IsSome(wbtq) /\ IsSome(ofs)
                   THEN calculate_dtc_channel(wbtq, ofs)
                   ELSE Returned(None)
        with_dtc == IF dtc_out.kind = "returned" /\ IsSome(dtc_out.val)
                    THEN DictSet(channels_by_type, "DTC", Val(dtc_out.val))
                    ELSE channels_by_type
        pfs == DictGet(channels_by_type, "PFS")
        dtc_ == DictGet(with_dtc, "DTC")
        total_out == IF IsSome(pfs) /\ IsSome(dtc_)
                     THEN calculate_total_channel(pfs, dtc_)
                     ELSE Returned(None)
    IN  IF dtc_out.kind # "returned" THEN dtc_out
        ELSE IF total_out.kind # "returned" THEN total_out
        ELSE Returned(IF IsSome(total_out.val)
                      THEN DictSet(with_dtc, "TOTAL", Val(total_out.val))
                      ELSE with_dtc)

\* f"{metric.year}-{metric.month:02d}" as a pair
PeriodOf(metric) == <<metric.year, metric.month>>

RECURSIVE PeriodsInOrder(_, _)
\* The keys of metrics_by_period in insertion order: the periods of the list by
\* first occurrence. seen: the periods met so far.
PeriodsInOrder(monthly_metrics_, seen) ==
    IF monthly_metrics_ = <<>> THEN <<>>
    ELSE LET period == PeriodOf(Head(monthly_metrics_))
         IN  IF period \in seen THEN PeriodsInOrder(Tail(monthly_metrics_), seen)
             ELSE <<period>> \o PeriodsInOrder(Tail(monthly_metrics_), seen \cup {period})

\* abs(a - b) > 0.01 on amounts that are whole numbers
Differs(a, b) == Abs(a - b) * 100 > 1

\* The diagnostics of one period (273-299): the message is modelled by the
\* period and the sum it reports.
PeriodErrors(period, channels) ==
    LET pfs == DictGet(channels, "PFS")
        dtc_ == DictGet(channels, "DTC")
        total_ == DictGet(channels, "TOTAL")
        wbtq == DictGet(channels, "WBTQ")
        ofs == DictGet(channels, "OFS")
    IN  (IF IsSome(total_) /\ IsSome(pfs) /\ IsSome(dtc_)
         THEN (IF Differs(Val(total_).net, Val(pfs).net + Val(dtc_).net)
               THEN <<[period |-> period, sum |-> "TOTAL.net"]>> ELSE <<>>)
              \o
              (IF Differs(Val(total_).gmv, Val(pfs).gmv + Val(dtc_).gmv)
               THEN <<[period |-> period, sum |-> "TOTAL.gmv"]>> ELSE <<>>)
         ELSE <<>>)
        \o
        (IF IsSome(dtc_) /\ IsSome(wbtq) /\ IsSome(ofs)
         THEN (IF Differs(Val(dtc_).net, Val(wbtq).net + Val(ofs).net)
               THEN <<[period |-> period, sum |-> "DTC.net"]>> ELSE <<>>)
         ELSE <<>>)

RECURSIVE ErrorsOfPeriods(_, _)
ErrorsOfPeriods(monthly_metrics_, periods) ==
    IF periods = <<>> THEN <<>>
    ELSE PeriodErrors(Head(periods),
                      ChannelsByType(SelectSeq(monthly_metrics_,
                                               LAMBDA m : PeriodOf(m) = Head(periods))))
         \o ErrorsOfPeriods(monthly_metrics_, Tail(periods))

\* ChannelAggregator.validate_channel_hierarchy
validate_channel_hierarchy(monthly_metrics_) ==
    ErrorsOfPeriods(monthly_metrics_, PeriodsInOrder(monthly_metrics_, {}))

MaxHierarchy == 3

\* The aggregates of the lists: the two direct channels and the platform
\* channel, DTC aggregates that are and are not their sum, TOTAL aggregates
\* that are and are not PFS + DTC, and an aggregate of another month.
HierarchyProfile(gmv, net, uv, buyers) ==
    Counters(gmv, net, uv, buyers, Some(2), Some(3), 1, Some(0), Some(1))
HierarchyMetrics ==
    { InputMetric(<<2025, 12>>, "WBTQ", HierarchyProfile(4, 3, 2, 1)),
      InputMetric(<<2025, 12>>, "OFS", HierarchyProfile(6, 5, 4, 2)),
      InputMetric(<<2025, 11>>, "OFS", HierarchyProfile(6, 5, 4, 2)),
      InputMetric(<<2025, 12>>, "PFS", HierarchyProfile(4, 3, 2, 1)),
      InputMetric(<<2025, 12>>, "DTC", HierarchyProfile(10, 8, 6, 3)),
      InputMetric(<<2025, 12>>, "DTC", HierarchyProfile(11, 8, 6, 3)),
      InputMetric(<<2025, 12>>, "DTC", HierarchyProfile(10, 9, 6, 3)),
      InputMetric(<<2025, 12>>, "TOTAL", HierarchyProfile(14, 11, 8, 4)),
      InputMetric(<<2025, 12>>, "TOTAL", HierarchyProfile(15, 11, 8, 4)),
      InputMetric(<<2025, 12>>, "TOTAL", HierarchyProfile(14, 12, 8, 4)) }

HierarchyInit ==
    /\ hierarchy_metrics \in SeqsUpTo(HierarchyMetrics, MaxHierarchy)
    /\ channel_breakdown = NotCalled
    /\ hierarchy_errors = NotCalled

HierarchyIdle ==
    /\ hierarchy_metrics = <<>>
    /\ channel_breakdown = NotCalled
    /\ hierarchy_errors = NotCalled

CalculateChannelBreakdown ==
    /\ channel_breakdown' = calculate_channel_breakdown(hierarchy_metrics)
    /\ UNCHANGED <<hierarchy_metrics, hierarchy_errors>>
    /\ UNCHANGED notHierarchy

ValidateChannelHierarchy ==
    /\ hierarchy_errors' = Returned(validate_channel_hierarchy(hierarchy_metrics))
    /\ UNCHANGED <<hierarchy_metrics, channel_breakdown>>
    /\ UNCHANGED notHierarchy

-----------------------------------------------------------------------------
(* Operations on a list of aggregates: the growth attachers
   DataAggregator.calculate_yoy_for_all / calculate_mom_for_all (calculator.py
   494-578), FiscalYearAggregator.calculate_fiscal_yoy_for_all /
   calculate_fiscal_mom_for_all (fiscal_calculator.py 310-350) and
   CoreBusinessCalculator.calculate_all_derived_channels
   (core_business_calculator.py 427-476).
   The list and its MonthlyMetrics are Python objects passed by reference: each
   operation is modelled by its return value and by the list as the call leaves
   it. An object is identified by its position in the list. *)

\* The position of the metric a dict keyed by channel and period holds for the
\* key after the list was inserted in order (the last one stays); 0: no entry.
LastIndexOf(monthly_metrics_, channel, year, month) ==
    LET hits == { i \in 1 .. Len(monthly_metrics_) :
                    /\ monthly_metrics_[i].channel = channel
                    /\ monthly_metrics_[i].year = year
                    /\ monthly_metrics_[i].month = month }
    IN  IF hits = {} THEN 0 ELSE CHOOSE i \in hits : \A j \in hits : j <= i

\* DataAggregator.calculate_yoy_for_all
calculate_yoy_for_all(monthly_metrics_) ==
    LET after ==
          [i \in 1 .. Len(monthly_metrics_) |->
             LET current_metric_ == monthly_metrics_[i]
                 last == LastIndexOf(monthly_metrics_, current_metric_.channel,
                                     current_metric_.year - 1, current_metric_.month)
             IN  IF /\ LastIndexOf(monthly_metrics_, current_metric_.channel,
                                   current_metric_.year, current_metric_.month) = i
                    /\ last # 0
                 THEN [current_metric_ EXCEPT
                         !.yoy_growth =
                             OptHundredths(calculate_yoy(Some(current_metric_.net),
                                                         Some(monthly_metrics_[last].net))),
                         !.ly_net = Some(monthly_metrics_[last].net),
                         !.ly_gmv = Some(monthly_metrics_[last].gmv),
                         !.ly_uv = Some(monthly_metrics_[last].uv)]
                 ELSE current_metric_]
    IN  [ret |-> Returned(after), monthly_metrics |-> after]

\* j stands before i in data_by_channel[channel] after
\* metrics.sort(key=lambda m: (m.year, m.month)); the sort is stable.
SortsBefore(monthly_metrics_, j, i) ==
    LET a == monthly_metrics_[j]
        b == monthly_metrics_[i]
    IN  /\ a.channel = b.channel
        /\ \/ a.year < b.year
           \/ a.year = b.year /\ a.month < b.month
           \/ a.year = b.year /\ a.month = b.month /\ j < i

\* metrics[i - 1] for the metric at a position of the input list; 0: it is the
\* first of its channel.
PreviousOf(monthly_metrics_, i) ==
    LET before == { j \in 1 .. Len(monthly_metrics_) : SortsBefore(monthly_metrics_, j, i) }
    IN  IF before = {} THEN 0
        ELSE CHOOSE j \in before :
               \A k \in before : k = j \/ SortsBefore(monthly_metrics_, k, j)

\* DataAggregator.calculate_mom_for_all. The per-channel lists are new lists;
\* sorting them leaves the order of the input list alone.
calculate_mom_for_all(monthly_metrics_) ==
    LET after ==
          [i \in 1 .. Len(monthly_metrics_) |->
             LET current == monthly_metrics_[i]
                 previous == PreviousOf(monthly_metrics_, i)
             IN  IF previous # 0
                 THEN [current EXCEPT
                         !.mom_growth =
                             OptHundredths(calculate_mom(Some(current.net),
                                                         Some(monthly_metrics_[previous].net)))]
                 ELSE current]
    IN  [ret |-> Returned(after), monthly_metrics |-> after]

\* FiscalYearAggregator.calculate_fiscal_yoy_for_all
calculate_fiscal_yoy_for_all(monthly_metrics_) ==
    LET after ==
          [i \in 1 .. Len(monthly_metrics_) |->
             LET yoy == calculate_fiscal_yoy(monthly_metrics_[i], monthly_metrics_)
             IN  IF IsSome(yoy) THEN [monthly_metrics_[i] EXCEPT !.yoy_growth = yoy]
                 ELSE monthly_metrics_[i]]
    IN  [ret |-> Returned(after), monthly_metrics |-> after]

\* FiscalYearAggregator.calculate_fiscal_mom_for_all
calculate_fiscal_mom_for_all(monthly_metrics_) ==
    LET after ==
          [i \in 1 .. Len(monthly_metrics_) |->
             LET mom == calculate_fiscal_mom(monthly_metrics_[i], monthly_metrics_)
             IN  IF IsSome(mom) THEN [monthly_metrics_[i] EXCEPT !.mom_growth = mom]
                 ELSE monthly_metrics_[i]]
    IN  [ret |-> Returned(after), monthly_metrics |-> after]

\* The body shared by calculate_dtc_excl_ff (core_business_calculator.py 49-97)
\* and calculate_dtc_excl_ff_sc (99-147): a new MonthlyMetrics with the counters
\* and ratios of the DTC aggregate under another tag; the comparison fields are
\* not copied.
CopyUnderTag(dtc_metric_, channel) ==
    IF IsNone(dtc_metric_) THEN Returned(None)
    ELSE MonthlyMetrics([Val(dtc_metric_) EXCEPT
                            !.channel = channel,
                            !.non_paid_traffic = Some(@),
                            !.ly_gmv = None, !.ly_net = None, !.ly_uv = None,
                            !.yoy_growth = None, !.mom_growth = None])

\* CoreBusinessCalculator.calculate_dtc_excl_ff
calculate_dtc_excl_ff(dtc_metric_) == CopyUnderTag(dtc_metric_, "DTC_EXCL_FF")

\* CoreBusinessCalculator.calculate_dtc_excl_ff_sc
calculate_dtc_excl_ff_sc(dtc_metric_) == CopyUnderTag(dtc_metric_, "DTC_EXCL_FF_SC")

\* metrics_by_period[period]: the metric of each channel of the period
MetricsOfPeriod(monthly_metrics_, period) ==
    ChannelsByType(SelectSeq(monthly_metrics_, LAMBDA m : PeriodOf(m) = period))

RECURSIVE DerivedOfPeriods(_, _)
\* The loop of calculate_all_derived_channels (453-473) over the periods in
\* insertion order: the aggregates it appends to result, or the exception of a
\* MonthlyMetrics constructor.
DerivedOfPeriods(monthly_metrics_, periods) ==
    IF periods = <<>> THEN Returned(<<>>)
    ELSE LET channels == MetricsOfPeriod(monthly_metrics_, Head(periods))
             pfs == DictGet(channels, "PFS")
             dtc_ == DictGet(channels, "DTC")
             made == IF IsSome(dtc_) /\ "DTC_EXCL_FF_SC" \notin DOMAIN channels
                     THEN calculate_dtc_excl_ff_sc(dtc_)
                     ELSE Returned(None)
             \* channels.get(ChannelType.DTC_EXCL_FF_SC, dtc)
             dtc_excl_ff_sc ==
                 IF "DTC_EXCL_FF_SC" \in DOMAIN channels
                 THEN DictGet(channels, "DTC_EXCL_FF_SC")
                 ELSE IF made.kind = "returned" /\ IsSome(made.val) THEN made.val
                 ELSE dtc_
             core == IF IsSome(dtc_) /\ IsSome(pfs) /\ made.kind = "returned"
                     THEN calculate_core_business(pfs, dtc_excl_ff_sc)
                     ELSE Returned(None)
             rest == DerivedOfPeriods(monthly_metrics_, Tail(periods))
         IN  IF made.kind # "returned" THEN made
             ELSE IF core.kind # "returned" THEN core
             ELSE IF rest.kind # "returned" THEN rest
             ELSE Returned(made.val \o core.val \o rest.val)

\* calculate_all_derived_channels that appends to the list it was given
\* (result = monthly_metrics) instead of to a copy.
calculate_all_derived_channels_mut(calculate_derived_, monthly_metrics_) ==
    IF ~calculate_derived_
    THEN [ret |-> Returned(monthly_metrics_), monthly_metrics |-> monthly_metrics_]
    ELSE LET derived == DerivedOfPeriods(monthly_metrics_,
                                         PeriodsInOrder(monthly_metrics_, {}))
         IN  IF derived.kind = "returned"
             THEN [ret |-> Returned(monthly_metrics_ \o derived.val),
                   monthly_metrics |-> monthly_metrics_ \o derived.val]
             ELSE [ret |-> derived, monthly_metrics |-> monthly_metrics_]

\* CoreBusinessCalculator.calculate_all_derived_channels: result is a copy of
\* the list (list(monthly_metrics)); the aggregates are read only.
calculate_all_derived_channels(calculate_derived_, monthly_metrics_) ==
    IF ~calculate_derived_
    THEN [ret |-> Returned(monthly_metrics_), monthly_metrics |-> monthly_metrics_]
    ELSE LET derived == DerivedOfPeriods(monthly_metrics_,
                                         PeriodsInOrder(monthly_metrics_, {}))
         IN  [ret |-> IF derived.kind = "returned"
                      THEN Returned(monthly_metrics_ \o derived.val)
                      ELSE derived,
              monthly_metrics |-> monthly_metrics_]

MaxBatch == 3

\* The aggregates of the lists: the platform and the direct channel of December
\* 2025, direct-channel aggregates one and two months and one year earlier (with
\* and without revenue), and derived aggregates that are already there.
BatchMetrics ==
    { InputMetric(<<2025, 12>>, "PFS", Counters(4, 3, 2, 1, Some(2), Some(3), 1, Some(0), Some(1))),
      InputMetric(<<2025, 12>>, "DTC", Counters(6, 5, 4, 2, Some(0), Some(0), 2, Some(1), Some(2))),
      InputMetric(<<2025, 11>>, "DTC", Counters(4, 4, 2, 1, Some(2), Some(3), 1, Some(0), Some(1))),
      InputMetric(<<2025, 10>>, "DTC", Counters(4, 2, 2, 1, Some(2), Some(3), 1, Some(0), Some(1))),
      InputMetric(<<2024, 12>>, "DTC", Counters(4, 3, 2, 1, Some(2), Some(3), 1, Some(0), Some(1))),
      InputMetric(<<2024, 12>>, "DTC", Counters(0, 0, 0, 0, None, None, 0, None, None)),
      InputMetric(<<2025, 12>>, "DTC_EXCL_FF_SC",
                  Counters(4, 3, 2, 1, Some(2), Some(3), 1, Some(0), Some(1))),
      InputMetric(<<2025, 12>>, "CORE_BUSINESS",
                  Counters(8, 6, 4, 2, Some(4), Some(6), 2, Some(0), Some(2))) }

BatchInit ==
    /\ batch_metrics \in SeqsUpTo(BatchMetrics, MaxBatch)
    /\ calculate_derived \in BOOLEAN
    /\ batch_result = NotCalled

BatchIdle ==
    /\ batch_metrics = <<>>
    /\ calculate_derived = TRUE
    /\ batch_result = NotCalled

CalculateYoyForAll ==
    LET call == calculate_yoy_for_all(batch_metrics)
    IN  /\ batch_metrics' = call.monthly_metrics
        /\ batch_result' = call.ret
        /\ UNCHANGED calculate_derived /\ UNCHANGED notBatch

CalculateMomForAll ==
    LET call == calculate_mom_for_all(batch_metrics)
    IN  /\ batch_metrics' = call.monthly_metrics
        /\ batch_result' = call.ret
        /\ UNCHANGED calculate_derived /\ UNCHANGED notBatch

CalculateFiscalYoyForAll ==
    LET call == calculate_fiscal_yoy_for_all(batch_metrics)
    IN  /\ batch_metrics' = call.monthly_metrics
        /\ batch_result' = call.ret
        /\ UNCHANGED calculate_derived /\ UNCHANGED notBatch

CalculateFiscalMomForAll ==
    LET call == calculate_fiscal_mom_for_all(batch_metrics)
    IN  /\ batch_metrics' = call.monthly_metrics
        /\ batch_result' = call.ret
        /\ UNCHANGED calculate_derived /\ UNCHANGED notBatch

CalculateAllDerivedChannels ==
    LET call == calculate_all_derived_channels(calculate_derived, batch_metrics)
    IN  /\ batch_metrics' = call.monthly_metrics
        /\ batch_result' = call.ret
        /\ UNCHANGED calculate_derived /\ UNCHANGED notBatch

-----------------------------------------------------------------------------
(* The supplementary year-to-date read on its own: _read_ytd_ff_from_excel
   (get_monthly_targets.py 464-585) for any month of two years. *)

MaxWindowRows == 2

\* Rows of a sheet with every counter column: FF targets before, at the start
\* of, inside and after the fiscal years of the periods asked for, one with an
\* empty GMV cell, and a row of another channel.
WindowSheetRows ==
    { SheetRow(FirstYear, 3, "FF", Some(1), Some(1), Some(1), Some(1), Some(1)),
      SheetRow(FirstYear, 4, "DTC_FF", Some(2), Some(1), Some(1), Some(1), Some(1)),
      SheetRow(FirstYear, 12, "FF", None, Some(2), Some(1), Some(1), Some(1)),
      SheetRow(FirstYear + 1, 1, "DTC_FF", Some(3), Some(2), Some(1), Some(1), Some(1)),
      SheetRow(FirstYear + 1, 3, "FF", Some(1), Some(3), Some(1), Some(1), Some(1)),
      SheetRow(FirstYear + 1, 4, "FF", Some(2), Some(2), Some(1), Some(1), Some(1)),
      SheetRow(FirstYear + 1, 1, "PFS", Some(9), Some(9), Some(9), Some(9), Some(9)) }

WindowInit ==
    /\ ytd_period \in [year : {FirstYear, FirstYear + 1}, month : Months]
    /\ excel_sheet \in { Some([rows |-> r, columns |-> SheetCounters]) :
                           r \in SeqsUpTo(WindowSheetRows, MaxWindowRows) }
    /\ months_listed = NotCalled
    /\ ytd_ff_read = NotCalled
    /\ df_db = None
    /\ df_ff = None
    /\ df_ff_ytd = None
    /\ monthly_targets = NotCalled
    /\ ytd_targets = NotCalled
    /\ monthly_targets_dict = NotCalled
    /\ ytd_targets_dict = NotCalled

WindowIdle ==
    /\ ytd_period = [year |-> AggYear, month |-> AggMonth]
    /\ months_listed = NotCalled
    /\ ytd_ff_read = NotCalled

\* A call that does not return.
NotTerminated == [kind |-> "not_terminated", val |-> <<>>]

\* _read_ytd_ff_from_excel(year, month, excel_path): the list its loop builds
\* and the frame it returns.
ReadYtdFfFromExcel ==
    LET run == MonthsLoop(get_fy_start_date(ytd_period.year, ytd_period.month).year,
                          get_fy_start_date(ytd_period.year, ytd_period.month).month,
                          ytd_period.year, ytd_period.month, <<>>, MaxLoopIterations)
    IN  /\ months_listed' = IF run.terminated THEN Returned(run.months) ELSE NotTerminated
        /\ ytd_ff_read' = IF run.terminated
                          THEN Returned(read_ytd_ff_from_excel(excel_sheet, ytd_period.year,
                                                               ytd_period.month))
                          ELSE NotTerminated
        /\ UNCHANGED ytd_period /\ UNCHANGED notWindow

-----------------------------------------------------------------------------
(* The derived direct-channel aggregates computed from a DTC aggregate:
   CoreBusinessCalculator.calculate_dtc_excl_ff / calculate_dtc_excl_ff_sc
   (core_business_calculator.py 49-147), called with what the aggregation of the
   daily records returned. *)

DerivedInit ==
    /\ excl_ff_result = NotCalled
    /\ excl_ff_sc_result = NotCalled

DerivedIdle == DerivedInit

CalculateDtcExclFf ==
    /\ monthly_excl.kind = "returned"
    /\ excl_ff_result' = calculate_dtc_excl_ff(monthly_excl.val)
    /\ UNCHANGED excl_ff_sc_result /\ UNCHANGED notDerived

CalculateDtcExclFfSc ==
    /\ monthly_excl.kind = "returned"
    /\ excl_ff_sc_result' = calculate_dtc_excl_ff_sc(monthly_excl.val)
    /\ UNCHANGED excl_ff_result /\ UNCHANGED notDerived

-----------------------------------------------------------------------------
(* Specifications *)

InitFiscal == FiscalInit /\ GrowthIdle /\ ComposeIdle /\ AggIdle /\ MergeIdle /\ FiscalGrowthIdle
    /\ HierarchyIdle /\ BatchIdle /\ WindowIdle /\ DerivedIdle
NextFiscal == GetFiscalYear \/ GetFiscalQuarter \/ GetFyStartDate
SpecFiscal == InitFiscal /\ [][NextFiscal]_vars

InitGrowth == GrowthInit /\ FiscalIdle /\ ComposeIdle /\ AggIdle /\ MergeIdle /\ FiscalGrowthIdle
    /\ HierarchyIdle /\ BatchIdle /\ WindowIdle /\ DerivedIdle
NextGrowth == CalculateYoy \/ CalculateMom
SpecGrowth == InitGrowth /\ [][NextGrowth]_vars

InitCompose == ComposeInit /\ FiscalIdle /\ GrowthIdle /\ AggIdle /\ MergeIdle /\ FiscalGrowthIdle
    /\ HierarchyIdle /\ BatchIdle /\ WindowIdle /\ DerivedIdle
NextCompose == CalculateTotalChannel \/ CalculateDtcChannel \/ CalculateCoreBusiness
SpecCompose == InitCompose /\ [][NextCompose]_vars

InitAggregate == AggInit /\ FiscalIdle /\ GrowthIdle /\ ComposeIdle /\ MergeIdle /\ FiscalGrowthIdle
    /\ HierarchyIdle /\ BatchIdle /\ WindowIdle /\ DerivedIdle
NextAggregate == AggregateMonthly \/ CalculateYtd \/ AggregateMonthlyWithExclusion
SpecAggregate == InitAggregate /\ [][NextAggregate]_vars

InitFiscalYtd == FiscalYtdInit /\ FiscalIdle /\ GrowthIdle /\ ComposeIdle /\ MergeIdle /\ FiscalGrowthIdle
    /\ HierarchyIdle /\ BatchIdle /\ WindowIdle /\ DerivedIdle
NextFiscalYtd == AggregateFiscalYearMonthly \/ CalculateFiscalYtd
SpecFiscalYtd == InitFiscalYtd /\ [][NextFiscalYtd]_vars

InitFiscalMonthly ==
    FiscalMonthlyInit /\ FiscalIdle /\ GrowthIdle /\ ComposeIdle /\ MergeIdle
    /\ FiscalGrowthIdle /\ HierarchyIdle /\ BatchIdle /\ WindowIdle /\ DerivedIdle
NextFiscalMonthly == AggregateFiscalYearMonthly
SpecFiscalMonthly == InitFiscalMonthly /\ [][NextFiscalMonthly]_vars

InitMerge == MergeInit /\ FiscalIdle /\ GrowthIdle /\ ComposeIdle /\ FiscalGrowthIdle
    /\ HierarchyIdle /\ BatchIdle /\ WindowIdle /\ DerivedIdle
NextMerge == GetMonthlyTargets \/ GetYtdTargets \/ AggregateMonthlyWithExclusion
SpecMerge == InitMerge /\ [][NextMerge]_vars

InitTargets ==
    TargetsInit /\ FiscalIdle /\ GrowthIdle /\ ComposeIdle /\ AggIdle /\ FiscalGrowthIdle
    /\ HierarchyIdle /\ BatchIdle /\ WindowIdle /\ DerivedIdle
NextTargets ==
    GetMonthlyTargets \/ GetYtdTargets \/ GetMonthlyTargetsDict \/ GetYtdTargetsDict
SpecTargets == InitTargets /\ [][NextTargets]_vars

InitFiscalGrowth ==
    FiscalGrowthInit /\ FiscalIdle /\ GrowthIdle /\ ComposeIdle /\ AggIdle /\ MergeIdle
    /\ HierarchyIdle /\ BatchIdle /\ WindowIdle /\ DerivedIdle
NextFiscalGrowth == CalculateFiscalYoy \/ CalculateFiscalMom
SpecFiscalGrowth == InitFiscalGrowth /\ [][NextFiscalGrowth]_vars

InitHierarchy ==
    HierarchyInit /\ FiscalIdle /\ GrowthIdle /\ ComposeIdle /\ AggIdle /\ MergeIdle
    /\ FiscalGrowthIdle /\ BatchIdle /\ WindowIdle /\ DerivedIdle
NextHierarchy == CalculateChannelBreakdown \/ ValidateChannelHierarchy
SpecHierarchy == InitHierarchy /\ [][NextHierarchy]_vars

InitBatch ==
    BatchInit /\ FiscalIdle /\ GrowthIdle /\ ComposeIdle /\ AggIdle /\ MergeIdle
    /\ FiscalGrowthIdle /\ HierarchyIdle /\ WindowIdle /\ DerivedIdle
NextBatch ==
    \/ CalculateYoyForAll \/ CalculateMomForAll
    \/ CalculateFiscalYoyForAll \/ CalculateFiscalMomForAll
    \/ CalculateAllDerivedChannels
SpecBatch == InitBatch /\ [][NextBatch]_vars

InitYtdWindow ==
    WindowInit /\ FiscalIdle /\ GrowthIdle /\ ComposeIdle /\ AggIdle /\ FiscalGrowthIdle
    /\ HierarchyIdle /\ BatchIdle /\ DerivedIdle
NextYtdWindow == ReadYtdFfFromExcel
SpecYtdWindow == InitYtdWindow /\ [][NextYtdWindow]_vars

InitDerived ==
    AggInit /\ DerivedInit /\ FiscalIdle /\ GrowthIdle /\ ComposeIdle /\ MergeIdle
    /\ FiscalGrowthIdle /\ HierarchyIdle /\ BatchIdle /\ WindowIdle
NextDerived == AggregateMonthlyWithExclusion \/ CalculateDtcExclFf \/ CalculateDtcExclFfSc
SpecDerived == InitDerived /\ [][NextDerived]_vars

-----------------------------------------------------------------------------
(* C4: calculate_yoy(current, prior) is (current - prior)/prior * 100 rounded
   to 2 decimals when prior > 0, 0 when prior = 0 and current = 0, and null
   when prior = 0 and current # 0 or when either input is null; calculate_mom
   applies the identical policy. (prior=100000, current=120000 gives 20.0;
   prior=0, current=50000 gives null; prior=0, current=0 gives 0.) *)
GrowthPolicy(res) ==
    res.kind = "returned" =>
        /\ (IsNone(current_value) \/ IsNone(last_value)) => res.val = None
        /\ (IsSome(current_value) /\ IsSome(last_value)) =>
              LET c == Val(current_value)
                  p == Val(last_value)
              IN  /\ (p = 0 /\ c = 0) => res.val = Some(0)
                  /\ (p = 0 /\ c # 0) => res.val = None
                  /\ p > 0 =>
                       /\ IsSome(res.val)
                       \* the nearest hundredth to (c - p) / p * 100
                       /\ 2 * Abs(Val(res.val) * p - 10000 * (c - p)) <= p
                  /\ (p = 100000 /\ c = 120000) => res.val = Some(2000)
                  /\ (p = 100000 /\ c = 110000) => res.val = Some(1000)
                  /\ (p = 0 /\ c = 50000) => res.val = None

C4_GrowthZeroPolicy == GrowthPolicy(yoy_growth) /\ GrowthPolicy(mom_growth)

C4_Witness ==
    /\ yoy_growth.kind = "returned" /\ mom_growth.kind = "returned"
    /\ last_value = Some(0) /\ current_value = Some(50000)
    /\ yoy_growth.val = None /\ mom_growth.val = None

-----------------------------------------------------------------------------
(* C5: for every calendar date get_fiscal_year is calendar year + 1 when
   month >= 4 and the calendar year otherwise; get_fiscal_quarter is 1 for
   months 4-6, 2 for 7-9, 3 for 10-12 and 4 for 1-3. (2025-04-01 and
   2025-06-30 are fiscal year 2026 Q1, 2025-07-01 is 2026 Q2, 2026-03-31 is
   2026 Q4.) *)
QuarterTable == [m \in Months |->
    IF m \in {4, 5, 6} THEN 1 ELSE IF m \in {7, 8, 9} THEN 2
    ELSE IF m \in {10, 11, 12} THEN 3 ELSE 4]

C5_FiscalMapping ==
    /\ IsSome(fiscal_year) =>
         /\ date_value.month \in 4 .. 12 => Val(fiscal_year) = date_value.year + 1
         /\ date_value.month \in 1 .. 3 => Val(fiscal_year) = date_value.year
         /\ date_value \in {Date(2025, 4, 1), Date(2025, 6, 30), Date(2025, 7, 1),
                            Date(2026, 3, 31)} => Val(fiscal_year) = 2026
    /\ IsSome(fiscal_quarter) =>
         /\ Val(fiscal_quarter) = QuarterTable[date_value.month]
         /\ date_value \in {Date(2025, 4, 1), Date(2025, 6, 30)} => Val(fiscal_quarter) = 1
         /\ date_value = Date(2025, 7, 1) => Val(fiscal_quarter) = 2
         /\ date_value = Date(2026, 3, 31) => Val(fiscal_quarter) = 4

C5_Witness ==
    /\ date_value = Date(2025, 4, 1)
    /\ fiscal_year = Some(2026)
    /\ fiscal_quarter = Some(1)

-----------------------------------------------------------------------------
(* C6: for every (year, month), _get_fy_start_date(year, month) is April 1
   of (fiscal year of that month - 1), the fiscal year being the one
   get_fiscal_year assigns to the month; the start date lies in the same
   fiscal year as the month and is never later than the first day of the
   month. ((2025, 11) gives 2025-04-01; (2025, 2) gives 2024-04-01.) *)
DateLeq(a, b) ==
    \/ a.year < b.year
    \/ a.year = b.year /\ a.month < b.month
    \/ a.year = b.year /\ a.month = b.month /\ a.day <= b.day

C6_FyStart ==
    IsSome(fy_start_date) =>
        LET first == Date(date_value.year, date_value.month, 1)
            start == Val(fy_start_date)
        IN  /\ start = Date(get_fiscal_year(first) - 1, 4, 1)
            /\ get_fiscal_year(start) = get_fiscal_year(first)
            /\ DateLeq(start, first)
            /\ (date_value.year = 2025 /\ date_value.month = 11) => start = Date(2025, 4, 1)
            /\ (date_value.year = 2025 /\ date_value.month = 2) => start = Date(2024, 4, 1)

C6_Witness ==
    /\ date_value.year = 2025 /\ date_value.month = 2
    /\ fy_start_date = Some(Date(2024, 4, 1))
-----------------------------------------------------------------------------
(* C3: whenever calculate_total_channel, calculate_dtc_channel or
   calculate_core_business returns a result, the result's gmv, net, uv,
   buyers, paid_traffic and free_traffic are each exactly the sum of the two
   inputs' values, the result carries the inputs' (year, month), and it is
   tagged TOTAL, DTC and CORE_BUSINESS respectively. *)
IsResult(res) == res.kind = "returned" /\ IsSome(res.val)

SumsInputs(res, tag) ==
    IsResult(res) =>
        /\ IsSome(pfs_metric) /\ IsSome(dtc_metric)
        /\ LET r == Val(res.val)
               a == Val(pfs_metric)
               b == Val(dtc_metric)
           IN  /\ r.gmv = a.gmv + b.gmv
               /\ r.net = a.net + b.net
               /\ r.uv = a.uv + b.uv
               /\ r.buyers = a.buyers + b.buyers
               /\ r.paid_traffic = a.paid_traffic + b.paid_traffic
               /\ r.free_traffic = a.free_traffic + b.free_traffic
               /\ r.year = a.year /\ r.year = b.year
               /\ r.month = a.month /\ r.month = b.month
               /\ r.channel = tag

C3_ComposersSum ==
    /\ SumsInputs(total, "TOTAL")
    /\ SumsInputs(dtc, "DTC")
    /\ SumsInputs(core_business, "CORE_BUSINESS")

C3_Witness ==
    /\ IsResult(total) /\ IsResult(dtc) /\ IsResult(core_business)
    /\ Val(pfs_metric).gmv = 4 /\ Val(dtc_metric).gmv = 6
    /\ Val(total.val).gmv = 10 /\ Val(dtc.val).gmv = 10
    /\ Val(core_business.val).gmv = 10

-----------------------------------------------------------------------------
(* C9: calling calculate_total_channel twice on the same PFS and DTC
   aggregates yields two TOTAL aggregates that are field-for-field identical,
   and neither call changes any field of the PFS or DTC input. *)
SecondCallSame == total_prev.kind # "not_called" => total = total_prev
InputsKept == pfs_metric' = pfs_metric /\ dtc_metric' = dtc_metric

C9_TotalIdempotent == []SecondCallSame /\ [][InputsKept]_vars

C9_Witness ==
    /\ IsResult(total_prev) /\ IsResult(total)
    /\ Val(total.val).gmv = 10
    /\ Val(total.val).total_refund_amount = Some(4)


-----------------------------------------------------------------------------
(* Exclusion engine and period aggregator *)

\* The records of daily_metrics the selector matches.
MatchedRows == FilterRows(daily_metrics, selector.year, selector.month, selector.channel)

OnlyFF == [exclude_ff |-> TRUE, exclude_social |-> FALSE]

\* Every record is a DTC record of the selected month that carries GMV and
\* revenue; its FF part and its refunds, where recorded, are a part of them.
DtcRecordsWithFFPart ==
    /\ daily_metrics # <<>>
    /\ MatchedRows = daily_metrics
    /\ selector.channel = "DTC"
    /\ \A i \in 1 .. Len(daily_metrics) :
         LET r == daily_metrics[i]
         IN  /\ IsSome(r.gmv) /\ IsSome(r.net)
             /\ IsSome(r.dtc_ff_gmv) => Val(r.dtc_ff_gmv) <= Val(r.gmv)
             /\ IsSome(r.dtc_ff_net) => Val(r.dtc_ff_net) <= Val(r.net)
             /\ (IsSome(r.dtc_ff_traffic) /\ IsSome(r.uv)) =>
                    Val(r.dtc_ff_traffic) <= Val(r.uv)
             /\ OrZero(r.cancel_amount) + OrZero(r.return_amount) <= Val(r.gmv)

\* C1: for DTC records of one month and the exclusion configuration {FF}, the
\* exclusion engine returns an aggregate tagged DTC_EXCL_FF whose GMV plus the
\* records' summed FF GMV is the DTC GMV the period aggregator sums over the same
\* records (calculator.py 302-303), and likewise for revenue, whatever the number
\* of records.
C1_ExclusionAddsBack ==
    (monthly_excl.kind # "not_called" /\ exclusion_config = OnlyFF /\ DtcRecordsWithFFPart)
    => /\ IsResult(monthly_excl)
       /\ Val(monthly_excl.val).channel = "DTC_EXCL_FF"
       /\ Val(monthly_excl.val).gmv + SumCol(MatchedRows, "dtc_ff_gmv")
            = SumCol(MatchedRows, "gmv")
       /\ Val(monthly_excl.val).net + SumCol(MatchedRows, "dtc_ff_net")
            = SumCol(MatchedRows, "net")

ConversionRateOf(res) ==
    IsResult(res) =>
        LET m == Val(res.val)
        IN  /\ m.uv > 0 => m.cr = Hundredths(Pct2(m.buyers, m.uv))
            /\ m.uv = 0 => IsNone(m.cr)

\* C7 (as stated): every aggregate aggregate_monthly, calculate_ytd or the
\* exclusion engine returns has cr = round(buyers / uv * 100, 2) when its uv > 0
\* and a null cr when its uv is 0.
C7_ConversionRate ==
    ConversionRateOf(monthly) /\ ConversionRateOf(ytd) /\ ConversionRateOf(monthly_excl)

ConversionRateOrZeroOf(res) ==
    IsResult(res) =>
        LET m == Val(res.val)
        IN  /\ m.uv > 0 => m.cr = Hundredths(Pct2(m.buyers, m.uv))
            /\ m.uv = 0 => m.cr = Zero

\* C7 (amended): every aggregate aggregate_monthly, calculate_ytd or the exclusion
\* engine returns has cr = round(buyers / uv * 100, 2) when its uv > 0 and cr = 0.0
\* when its uv is 0.
C7_ConversionRateOrZero ==
    /\ ConversionRateOrZeroOf(monthly)
    /\ ConversionRateOrZeroOf(ytd)
    /\ ConversionRateOrZeroOf(monthly_excl)

C7_Witness ==
    /\ IsResult(monthly_excl)
    /\ Val(monthly_excl.val).uv = 0
    /\ Val(monthly_excl.val).gmv > 0
    /\ Val(monthly_excl.val).cr = Zero

-----------------------------------------------------------------------------
(* Fiscal year-to-date *)

\* (y1, m1) is not after (y2, m2).
MonthLeq(y1, m1, y2, m2) == y1 < y2 \/ (y1 = y2 /\ m1 <= m2)

\* The calendar (year, month) of month m of fiscal year fy: April to December
\* fall in the calendar year fy - 1.
FiscalTarget(fy, m) == IF m >= 4 THEN <<fy - 1, m>> ELSE <<fy, m>>

RECURSIVE WindowRows(_, _, _, _)
\* The channel's records dated from April of fy - 1 through month m of fiscal year fy.
WindowRows(df, fy, m, channel) ==
    IF df = <<>> THEN <<>>
    ELSE LET r == Head(df)
             rest == WindowRows(Tail(df), fy, m, channel)
         IN  IF /\ r.channel = channel
                /\ MonthLeq(fy - 1, 4, r.date.year, r.date.month)
                /\ MonthLeq(r.date.year, r.date.month, FiscalTarget(fy, m)[1],
                            FiscalTarget(fy, m)[2])
             THEN <<r>> \o rest ELSE rest

\* C10: calculate_fiscal_ytd(FY, channel, m), when it returns, sums exactly the
\* channel's records dated from April of FY - 1 through month m of fiscal year FY:
\* null when the window has no record, otherwise the window's sums, with no month
\* outside the window contributing.
C10_FiscalYtdWindow ==
    fiscal_ytd.kind = "returned" =>
        LET window == WindowRows(daily_metrics, selector.year, selector.month,
                                 selector.channel)
        IN  IF window = <<>> THEN IsNone(fiscal_ytd.val)
            ELSE /\ IsSome(fiscal_ytd.val)
                 /\ Val(fiscal_ytd.val).gmv = SumCol(window, "gmv")
                 /\ Val(fiscal_ytd.val).net = SumCol(window, "net")
                 /\ Val(fiscal_ytd.val).uv = SumCol(window, "uv")
                 /\ Val(fiscal_ytd.val).buyers = SumCol(window, "buyers")


-----------------------------------------------------------------------------
(* Cross-source merger *)

\* The row of a returned frame tagged channel.
MergedRow(out, channel) == FirstRow(Val(out.val), channel)

\* The database frame has a DTC row whose GMV and revenue are the sums the period
\* aggregator takes over the records, and the spreadsheet frame is one FF row
\* whose GMV and revenue are the sums of the records' FF parts.
SourcesMatchRecords ==
    /\ IsSome(df_db) /\ HasChannel(Val(df_db), "DTC")
    /\ FirstRow(Val(df_db), "DTC").gmv = Some(SumCol(MatchedRows, "gmv"))
    /\ FirstRow(Val(df_db), "DTC").net = Some(SumCol(MatchedRows, "net"))
    /\ IsSome(df_ff) /\ Len(Val(df_ff).rows) = 1
    /\ Val(df_ff).rows[1].gmv = Some(SumCol(MatchedRows, "dtc_ff_gmv"))
    /\ Val(df_ff).rows[1].net = Some(SumCol(MatchedRows, "dtc_ff_net"))

\* C2: when the database DTC row equals the period sums over the records and the
\* spreadsheet FF row equals the sum of the records' FF parts, the merger's
\* DTC_EXCL_FF GMV and revenue equal those of the exclusion engine's DTC_EXCL_FF
\* aggregate over the same records.
C2_PathsAgree ==
    ( /\ IsResult(monthly_targets)
      /\ monthly_excl.kind # "not_called"
      /\ exclusion_config = OnlyFF
      /\ DtcRecordsWithFFPart
      /\ SourcesMatchRecords )
    => /\ IsResult(monthly_excl)
       /\ HasChannel(Val(monthly_targets.val), "DTC_EXCL_FF")
       /\ MergedRow(monthly_targets, "DTC_EXCL_FF").gmv = Some(Val(monthly_excl.val).gmv)
       /\ MergedRow(monthly_targets, "DTC_EXCL_FF").net = Some(Val(monthly_excl.val).net)

\* A cell-wise sum of two rows' counters, NaN where either is.
IsSumOf(total_row, a, b) ==
    \A c \in MergeCounters :
        total_row[c] = (IF IsSome(a[c]) /\ IsSome(b[c]) THEN Some(Val(a[c]) + Val(b[c]))
                        ELSE None)

\* With no supplementary frame, the DTC row of a returned merge is the database's
\* and a TOTAL row equal to PFS + DTC is there whenever both rows are.
PassThroughAndTotal(out) ==
    LET db == Val(df_db)
        frame == Val(out.val)
    IN  /\ HasChannel(db, "DTC") =>
              /\ HasChannel(frame, "DTC")
              /\ MergedRow(out, "DTC") = FirstRow(db, "DTC")
        /\ (HasChannel(db, "PFS") /\ HasChannel(db, "DTC")) =>
              /\ HasChannel(frame, "TOTAL")
              /\ IsSumOf(MergedRow(out, "TOTAL"), FirstRow(db, "PFS"), FirstRow(db, "DTC"))

\* C8 (as stated): with no supplementary rows a returned merge, monthly or
\* year-to-date, has no DTC_EXCL_FF row, its DTC row is the database's, and it has
\* a TOTAL row equal to PFS + DTC whenever both rows exist.
C8_EmptySupplementary ==
    \A call \in {<<monthly_targets, df_ff>>, <<ytd_targets, df_ff_ytd>>} :
        LET out == call[1] IN
        (IsNone(call[2]) /\ IsResult(out)) =>
            /\ ~HasChannel(Val(out.val), "DTC_EXCL_FF")
            /\ PassThroughAndTotal(out)

\* C8 (amended): with no supplementary rows a returned merge, monthly or
\* year-to-date, has a DTC_EXCL_FF row exactly when the database frame has a DTC
\* row, carrying the DTC row's counters unchanged; its DTC row is the database's,
\* and it has a TOTAL row equal to PFS + DTC whenever both rows exist.
C8_EmptySupplementaryKeepsDtcExclFF ==
    \A call \in {<<monthly_targets, df_ff>>, <<ytd_targets, df_ff_ytd>>} :
        LET out == call[1] IN
        (IsNone(call[2]) /\ IsResult(out)) =>
            /\ HasChannel(Val(out.val), "DTC_EXCL_FF") <=> HasChannel(Val(df_db), "DTC")
            /\ HasChannel(Val(df_db), "DTC") =>
                  \A c \in MergeCounters :
                      MergedRow(out, "DTC_EXCL_FF")[c] = FirstRow(Val(df_db), "DTC")[c]
            /\ PassThroughAndTotal(out)

C8_Witness ==
    /\ IsNone(df_ff) /\ IsNone(df_ff_ytd)
    /\ IsResult(monthly_targets) /\ IsResult(ytd_targets)
    /\ HasChannel(Val(df_db), "PFS") /\ HasChannel(Val(df_db), "DTC")
    /\ HasChannel(Val(monthly_targets.val), "TOTAL")
    /\ HasChannel(Val(ytd_targets.val), "DTC_EXCL_FF")


-----------------------------------------------------------------------------
\* The first metric of the list that is of the calendar month (year, month)
\* and of the channel of cur, as an Optional.
BaselineOf(cur, list, year, month) ==
    LET hits == { i \in 1 .. Len(list) :
                    /\ list[i].year = year
                    /\ list[i].month = month
                    /\ list[i].channel = cur.channel }
    IN  IF hits = {} THEN None
        ELSE Some(list[CHOOSE i \in hits : \A j \in hits : i <= j])

\* The zero policy of the calendar growth calculator, not rounded.
FiscalGrowthPolicy(cur, prior) ==
    IF IsNone(prior) THEN None
    ELSE IF Val(prior).net > 0
         THEN Some(Rat((cur.net - Val(prior).net) * 100, Val(prior).net))
    ELSE IF cur.net = 0 THEN Some(Zero)
    ELSE None

\* The same month one year back, and the month one period back in the fiscal
\* sequence April .. March (which is the calendar month before).
YearBack(cur) == [year |-> cur.year - 1, month |-> cur.month]
PeriodBack(cur) ==
    IF cur.month = 1 THEN [year |-> cur.year - 1, month |-> 12]
    ELSE [year |-> cur.year, month |-> cur.month - 1]

(* C11: calculate_fiscal_yoy applies the zero policy of the calendar growth
   calculator to the same-channel aggregate of the same month one fiscal year
   back: no baseline gives null, a baseline above 0 gives
   (current - baseline)/baseline * 100, a baseline of 0 gives 0 when the
   current value is 0 and null otherwise. (calculate_fiscal_mom shares the
   rule; which aggregate it takes as baseline is the subject of C12.) *)
C11_FiscalZeroPolicy ==
    fiscal_yoy # NotCalled =>
        fiscal_yoy = Returned(FiscalGrowthPolicy(current_metric,
            BaselineOf(current_metric, all_metrics,
                       YearBack(current_metric).year, YearBack(current_metric).month)))

(* C12: the baseline of calculate_fiscal_mom is the same-channel aggregate
   exactly one period back in the fiscal sequence April .. March: when the
   list holds one with revenue above 0 the result is the growth over it, and
   when the list holds none the result is null, whatever other periods the
   list holds. *)
C12_FiscalMomBaseline ==
    fiscal_mom # NotCalled =>
        LET prior == BaselineOf(current_metric, all_metrics,
                                PeriodBack(current_metric).year,
                                PeriodBack(current_metric).month)
        IN  /\ IsNone(prior) => fiscal_mom = Returned(None)
            /\ (IsSome(prior) /\ Val(prior).net > 0) =>
                   fiscal_mom = Returned(Some(Rat(
                       (current_metric.net - Val(prior).net) * 100, Val(prior).net)))


-----------------------------------------------------------------------------
\* A returned merge whose database frame has a DTC row and whose supplementary
\* frame ff is a single row takes every counter the supplementary row carries
\* as DTC minus supplementary in its DTC_EXCL_FF row.
SubtractsCarried(out, ff) ==
    ( /\ IsResult(out)
      /\ HasChannel(Val(df_db), "DTC")
      /\ IsSome(ff) /\ Len(Val(ff).rows) = 1 )
    => /\ HasChannel(Val(out.val), "DTC_EXCL_FF")
       /\ \A c \in SheetCounters \cap Val(ff).columns :
              MergedRow(out, "DTC_EXCL_FF")[c] =
                  NaNSub(FirstRow(Val(df_db), "DTC")[c], Val(ff).rows[1][c])

(* C13: in the monthly merge and in the fiscal-YTD merge, when a DTC row and a
   supplementary row both exist, every raw counter of DTC_EXCL_FF that the
   supplementary row carries (gmv, net, uv, buyers, gmv_units, net_units)
   equals DTC minus supplementary. *)
C13_ExclFFSubtractsCarried ==
    /\ SubtractsCarried(monthly_targets, df_ff)
    /\ SubtractsCarried(ytd_targets, df_ff_ytd)


-----------------------------------------------------------------------------
\* The no-data answer of the tabular view (null) and of the key -> aggregate
\* view (the empty mapping).
NoDataFrame(out) == out = Returned(None)
NoDataDict(out) == out = Returned(<<>>)

(* C14: get_monthly_targets and get_ytd_targets answer no-data (null in the
   tabular view, the empty mapping in the key -> aggregate view) exactly when
   the database source returned no rows, whatever the spreadsheet holds; with
   database rows present an absent or empty spreadsheet never gives no-data. *)
C14_NoDataIffPrimaryEmpty ==
    /\ \A out \in {monthly_targets, ytd_targets} :
           out # NotCalled => (NoDataFrame(out) <=> NoDbData)
    /\ \A out \in {monthly_targets_dict, ytd_targets_dict} :
           out # NotCalled => (NoDataDict(out) <=> NoDbData)

\* Both directions of C14 cannot meet in one run; the witness is the run with
\* database rows and no FF target in the window, all four views answered.
C14_Witness ==
    /\ ~NoDbData
    /\ IsSome(excel_sheet) /\ IsNone(df_ff) /\ IsNone(df_ff_ytd)
    /\ IsResult(monthly_targets) /\ IsResult(ytd_targets)
    /\ monthly_targets_dict.kind = "returned" /\ DOMAIN monthly_targets_dict.val # {}
    /\ ytd_targets_dict.kind = "returned" /\ DOMAIN ytd_targets_dict.val # {}

-----------------------------------------------------------------------------
\* The reorderings of a sequence.
Reorderings(seq) ==
    { [i \in 1 .. Len(seq) |-> seq[f[i]]] :
        f \in { g \in [1 .. Len(seq) -> 1 .. Len(seq)] :
                  \A i, j \in 1 .. Len(seq) : g[i] = g[j] => i = j } }

\* The database frames and the sheets that hold the same rows in another order.
ReorderedDb == IF IsNone(df_db) THEN {None} ELSE { Some(f) : f \in Reorderings(Val(df_db)) }
ReorderedSheet ==
    IF IsNone(excel_sheet) THEN {None}
    ELSE { Some([rows |-> r, columns |-> Val(excel_sheet).columns]) :
              r \in Reorderings(Val(excel_sheet).rows) }

\* Two outcomes are the same: both raise the same error, both are no-data, or
\* both are frames of the same rows (the order of the result's rows set aside).
SameOutcome(a, b) ==
    /\ a.kind = b.kind
    /\ IsSome(a.val) <=> IsSome(b.val)
    /\ IsResult(a) =>
          { Val(a.val)[i] : i \in 1 .. Len(Val(a.val)) } =
          { Val(b.val)[i] : i \in 1 .. Len(Val(b.val)) }

(* C15: the result of the monthly merge and of the fiscal-YTD merge does not
   depend on the order of the rows of the database frame or of the target
   sheet, also when the sheet holds more than one FF/DTC_FF row of the month:
   the same sources in any other row order give the same rows. *)
C15_RowOrderIndependent ==
    \A db \in ReorderedDb, sheet \in ReorderedSheet :
        /\ monthly_targets # NotCalled =>
              SameOutcome(monthly_targets,
                  get_monthly_targets(db,
                      IF IsNone(db) THEN None
                      ELSE read_ff_from_excel(sheet, selector.year, selector.month)))
        /\ ytd_targets # NotCalled =>
              SameOutcome(ytd_targets,
                  get_ytd_targets(db,
                      IF IsNone(db) THEN None
                      ELSE read_ytd_ff_from_excel(sheet, selector.year, selector.month)))


-----------------------------------------------------------------------------
\* The aggregate the list gives for each channel (the last one listed).
GivenChannels == ChannelsByType(hierarchy_metrics)

SamePeriod(a, b) == a.year = b.year /\ a.month = b.month

\* r carries the tag and the period and counter sums of a and b.
IsTaggedSum(r, tag, a, b) ==
    /\ r.channel = tag
    /\ r.year = a.year /\ r.month = a.month
    /\ r.gmv = a.gmv + b.gmv
    /\ r.net = a.net + b.net
    /\ r.uv = a.uv + b.uv
    /\ r.buyers = a.buyers + b.buyers
    /\ r.paid_traffic = a.paid_traffic + b.paid_traffic
    /\ r.free_traffic = a.free_traffic + b.free_traffic

\* C16 (as stated): calculate_channel_breakdown returns, for every channel
\* present in its input, exactly the input aggregate: a supplied DTC or TOTAL
\* is never replaced.
C16_BreakdownKeepsInputs ==
    channel_breakdown.kind = "returned" =>
        \A ch \in DOMAIN GivenChannels :
            /\ ch \in DOMAIN channel_breakdown.val
            /\ channel_breakdown.val[ch] = GivenChannels[ch]

\* One derived key of the breakdown: the tagged sum of a and b when both are
\* there and of one period, the supplied aggregate (or no key) otherwise.
DerivedKey(out, tag, a, b) ==
    IF IsSome(a) /\ IsSome(b) /\ SamePeriod(Val(a), Val(b))
    THEN /\ tag \in DOMAIN out
         /\ IsTaggedSum(out[tag], tag, Val(a), Val(b))
    ELSE /\ tag \in DOMAIN out <=> tag \in DOMAIN GivenChannels
         /\ tag \in DOMAIN GivenChannels => out[tag] = GivenChannels[tag]

(* C16 (amended): calculate_channel_breakdown returns every channel of its input
   other than DTC and TOTAL with exactly the input aggregate and adds no other
   key than DTC and TOTAL. DTC is WBTQ + OFS whenever the input holds WBTQ and
   OFS of one year and month, also when a DTC was supplied, and the supplied
   DTC otherwise; TOTAL is PFS + that DTC whenever the two are of one year and
   month, also when a TOTAL was supplied, and the supplied TOTAL otherwise. *)
C16_BreakdownRecomputesDerived ==
    channel_breakdown.kind = "returned" =>
        LET out == channel_breakdown.val
        IN  /\ DOMAIN out \ {"DTC", "TOTAL"} = DOMAIN GivenChannels \ {"DTC", "TOTAL"}
            /\ \A ch \in DOMAIN GivenChannels \ {"DTC", "TOTAL"} : out[ch] = GivenChannels[ch]
            /\ DerivedKey(out, "DTC", DictGet(GivenChannels, "WBTQ"),
                          DictGet(GivenChannels, "OFS"))
            /\ DerivedKey(out, "TOTAL", DictGet(GivenChannels, "PFS"), DictGet(out, "DTC"))

\* A breakdown of a list that supplies WBTQ, OFS and a DTC of one period: the
\* DTC returned is the sum and not the one supplied.
C16_Witness ==
    /\ channel_breakdown.kind = "returned"
    /\ {"WBTQ", "OFS", "DTC"} \subseteq DOMAIN GivenChannels
    /\ SamePeriod(GivenChannels["WBTQ"], GivenChannels["OFS"])
    /\ channel_breakdown.val["DTC"] # GivenChannels["DTC"]
    /\ IsTaggedSum(channel_breakdown.val["DTC"], "DTC",
                   GivenChannels["WBTQ"], GivenChannels["OFS"])

-----------------------------------------------------------------------------
\* The aggregates the list gives for the channels of one period.
ChannelsOfPeriod(period) ==
    ChannelsByType(SelectSeq(hierarchy_metrics, LAMBDA m : PeriodOf(m) = period))

\* The sum checks the rule names: a parent, its two parts, and the counter.
HierarchySums ==
    { [parent |-> "TOTAL", parts |-> <<"PFS", "DTC">>, counter |-> "net"],
      [parent |-> "TOTAL", parts |-> <<"PFS", "DTC">>, counter |-> "gmv"],
      [parent |-> "DTC", parts |-> <<"WBTQ", "OFS">>, counter |-> "net"],
      [parent |-> "DTC", parts |-> <<"WBTQ", "OFS">>, counter |-> "gmv"] }

\* The (period, sum) pairs of the list that are violated: the parent and both
\* parts are present and the parent's counter is further than 0.01 from the
\* sum of the parts'.
ViolatedSums ==
    { v \in { PeriodOf(hierarchy_metrics[i]) : i \in 1 .. Len(hierarchy_metrics) }
            \X HierarchySums :
        LET channels == ChannelsOfPeriod(v[1])
            chk == v[2]
        IN  /\ {chk.parent, chk.parts[1], chk.parts[2]} \subseteq DOMAIN channels
            /\ Differs(channels[chk.parent][chk.counter],
                       channels[chk.parts[1]][chk.counter]
                         + channels[chk.parts[2]][chk.counter]) }

(* C18: validate_channel_hierarchy never raises and returns one diagnostic per
   violated sum, so that the list is empty exactly when, in every period,
   TOTAL.revenue and TOTAL.GMV are within 0.01 of PFS + DTC where the three
   are present and DTC.revenue and DTC.GMV are within 0.01 of WBTQ + OFS
   where the three are present. *)
C18_HierarchyDiagnostics ==
    hierarchy_errors # NotCalled =>
        /\ hierarchy_errors.kind = "returned"
        /\ Len(hierarchy_errors.val) = Cardinality(ViolatedSums)


-----------------------------------------------------------------------------
\* Both inputs of the composers are there and of one year and month.
InputsAgree ==
    /\ IsSome(pfs_metric) /\ IsSome(dtc_metric)
    /\ Val(pfs_metric).year = Val(dtc_metric).year
    /\ Val(pfs_metric).month = Val(dtc_metric).month

(* C17: calculate_total_channel, calculate_dtc_channel and
   calculate_core_business return null without raising whenever an input is
   missing or the inputs differ in year or month, and return an aggregate
   whenever both inputs are present with the same year and month. *)
C17_ComposersNullOrAggregate ==
    \A out \in {total, dtc, core_business} :
        out # NotCalled =>
            /\ out.kind = "returned"
            /\ IsSome(out.val) <=> InputsAgree

\* Inputs of one year and different months, all three composers called.
C17_Witness ==
    /\ IsSome(pfs_metric) /\ IsSome(dtc_metric)
    /\ Val(pfs_metric).year = Val(dtc_metric).year
    /\ Val(pfs_metric).month # Val(dtc_metric).month
    /\ total = Returned(None) /\ dtc = Returned(None) /\ core_business = Returned(None)


-----------------------------------------------------------------------------
(* C19: the tag of the exclusion engine's DTC result is determined by what was
   subtracted: DTC_EXCL_FF_SC when FF and social are excluded, DTC_EXCL_FF when
   FF alone is, and DTC only for the unmodified DTC aggregate: under every
   exclusion configuration a result tagged DTC has revenue, GMV and uv equal
   to the plain sums over the DTC records of the month. *)
C19_TagFollowsSubtraction ==
    (IsResult(monthly_excl) /\ selector.channel = "DTC") =>
        LET r == Val(monthly_excl.val)
        IN  /\ (exclusion_config.exclude_ff /\ exclusion_config.exclude_social)
                  => r.channel = "DTC_EXCL_FF_SC"
            /\ (exclusion_config.exclude_ff /\ ~exclusion_config.exclude_social)
                  => r.channel = "DTC_EXCL_FF"
            /\ r.channel = "DTC" =>
                  /\ r.gmv = SumCol(MatchedRows, "gmv")
                  /\ r.net = SumCol(MatchedRows, "net")
                  /\ r.uv = SumCol(MatchedRows, "uv")

\* What the configuration excludes from a counter: the FF part, the social
\* part, or both, summed over the matched records.
ExcludedOf(ff_col, social_col) ==
    (IF exclusion_config.exclude_ff THEN SumCol(MatchedRows, ff_col) ELSE 0)
    + (IF exclusion_config.exclude_social THEN SumCol(MatchedRows, social_col) ELSE 0)

(* C20: with an exclusion applied to DTC, uv is max(0, summed uv - excluded uv)
   while revenue and GMV are not clamped: when the excluded contributions
   exceed the revenue or the GMV, the operation still returns an aggregate
   whose revenue and GMV are the (negative) differences. Stated for a month of
   one record, where the excluded sums are subtracted once. *)
C20_NegativeNotClamped ==
    ( /\ monthly_excl # NotCalled
      /\ selector.channel = "DTC"
      /\ Len(MatchedRows) = 1
      /\ exclusion_config.exclude_ff \/ exclusion_config.exclude_social
      /\ \/ ExcludedOf("dtc_ff_gmv", "dtc_social_gmv") > SumCol(MatchedRows, "gmv")
         \/ ExcludedOf("dtc_ff_net", "dtc_social_net") > SumCol(MatchedRows, "net") )
    => /\ IsResult(monthly_excl)
       /\ Val(monthly_excl.val).gmv =
              SumCol(MatchedRows, "gmv") - ExcludedOf("dtc_ff_gmv", "dtc_social_gmv")
       /\ Val(monthly_excl.val).net =
              SumCol(MatchedRows, "net") - ExcludedOf("dtc_ff_net", "dtc_social_net")
       /\ Val(monthly_excl.val).uv =
              Max(0, SumCol(MatchedRows, "uv")
                       - ExcludedOf("dtc_ff_traffic", "dtc_social_traffic"))

-----------------------------------------------------------------------------
\* No matched record carries a value in the column.
NoneCarries(rows, col) == \A i \in 1 .. Len(rows) : IsNone(rows[i][col])

RefundFamilyNull(m) ==
    /\ IsNone(m.cancel_rate) /\ IsNone(m.return_rate)
    /\ IsNone(m.rrc) /\ IsNone(m.rrc_after_cancel)

\* The rows calculate_ytd sums for the selector.
MatchedYtdRows ==
    FilterYtd(daily_metrics, selector.year, selector.month, selector.channel)

RefundFamilyNeedsAmounts(res, rows) ==
    (IsResult(res)
     /\ (NoneCarries(rows, "return_amount") \/ NoneCarries(rows, "cancel_amount")))
    => RefundFamilyNull(Val(res.val))

(* C21: in every aggregate aggregate_monthly, calculate_ytd or the exclusion
   engine (which re-derives the ratios by the same rules) returns, cancel
   rate, return rate, refund rate and post-cancel refund rate are null when no
   matched record has a return amount or none has a cancel amount. *)
C21_RefundFamilyNeedsAmounts ==
    /\ RefundFamilyNeedsAmounts(monthly, MatchedRows)
    /\ RefundFamilyNeedsAmounts(ytd, MatchedYtdRows)
    /\ RefundFamilyNeedsAmounts(monthly_excl, MatchedRows)

-----------------------------------------------------------------------------
\* The post-cancel refund rate of an aggregate that carries both amounts is
\* null on a denominator gmv - cancel <= 0 and never negative.
PostCancelRateGuarded(res) ==
    IsResult(res) =>
        LET m == Val(res.val)
        IN  /\ OptRatGe0(m.rrc_after_cancel)
            /\ (IsSome(m.cancel_amount) /\ m.gmv - Val(m.cancel_amount) <= 0)
                   => IsNone(m.rrc_after_cancel)
            /\ (IsSome(m.cancel_amount) /\ IsSome(m.return_amount)
                /\ IsSome(m.rrc_after_cancel))
                   => m.rrc_after_cancel =
                        Some(Hundredths(Pct2(Val(m.return_amount),
                                             m.gmv - Val(m.cancel_amount))))

(* C22: the post-cancel refund rate is null whenever GMV - cancel <= 0 and
   otherwise return / (GMV - cancel) x 100 rounded to 2 decimals; no aggregate a
   composer returns carries a negative post-cancel refund rate. *)
C22_PostCancelRateGuarded ==
    /\ PostCancelRateGuarded(total)
    /\ PostCancelRateGuarded(dtc)
    /\ PostCancelRateGuarded(core_business)

-----------------------------------------------------------------------------
\* The outcome of an aggregation over the rows its selector matches: null, and
\* no exception, when nothing matched; otherwise an aggregate whose counters are
\* the sums with a missing value counted as zero.
NullIffNoMatch(res, rows) ==
    res # NotCalled =>
        /\ rows = <<>> => res = Returned(None)
        /\ rows # <<>> =>
             /\ IsResult(res)
             /\ Val(res.val).buyers = SumCol(rows, "buyers")
             /\ Val(res.val).paid_traffic = SumCol(rows, "paid_traffic")
             /\ Val(res.val).free_traffic = SumCol(rows, "free_traffic")

(* C23: aggregate_monthly, calculate_ytd and aggregate_monthly_with_exclusion
   return null, without raising, exactly when no record matches the selector;
   when at least one record matches they return an aggregate whose counters are
   the sums with missing treated as zero. Stated on the counters no exclusion
   touches. *)
C23_NullIffNoMatch ==
    /\ NullIffNoMatch(monthly, MatchedRows)
    /\ NullIffNoMatch(ytd, MatchedYtdRows)
    /\ NullIffNoMatch(monthly_excl, MatchedRows)

-----------------------------------------------------------------------------
\* An aggregate without its comparison fields.
WithoutComparison(m) ==
    [m EXCEPT !.yoy_growth = None, !.mom_growth = None,
              !.ly_net = None, !.ly_gmv = None, !.ly_uv = None]

\* The list holds the same aggregates in the same order, and they differ from
\* what they were in the comparison fields at most.
OnlyComparisonChanged(before, after) ==
    /\ Len(after) = Len(before)
    /\ \A i \in 1 .. Len(before) : WithoutComparison(after[i]) = WithoutComparison(before[i])

AttachStep ==
    \/ CalculateYoyForAll \/ CalculateMomForAll
    \/ CalculateFiscalYoyForAll \/ CalculateFiscalMomForAll

AttachIsOnlyMutation ==
    /\ AttachStep =>
         /\ OnlyComparisonChanged(batch_metrics, batch_metrics')
         /\ batch_result' = Returned(batch_metrics')
    /\ CalculateAllDerivedChannels => batch_metrics' = batch_metrics

(* C24: calculate_yoy_for_all, calculate_mom_for_all,
   calculate_fiscal_yoy_for_all and calculate_fiscal_mom_for_all return the
   list they were given, with the same aggregates in the same order, and change
   no field of any aggregate other than yoy_growth, mom_growth, ly_net, ly_gmv
   and ly_uv; calculate_all_derived_channels leaves its input list and every
   aggregate in it unchanged. *)
C24_AttachIsOnlyMutation == [][AttachIsOnlyMutation]_vars

C24_Witness ==
    /\ batch_result.kind = "returned"
    /\ Len(batch_result.val) > Len(batch_metrics)
    /\ \E i \in 1 .. Len(batch_metrics) :
         /\ IsSome(batch_metrics[i].yoy_growth)
         /\ IsSome(batch_metrics[i].ly_net)
         /\ IsSome(batch_metrics[i].mom_growth)

-----------------------------------------------------------------------------
\* Both inputs of the composers carry a cancel amount and a return amount.
BothCarryRefunds ==
    /\ IsSome(pfs_metric) /\ IsSome(dtc_metric)
    /\ IsSome(Val(pfs_metric).cancel_amount) /\ IsSome(Val(dtc_metric).cancel_amount)
    /\ IsSome(Val(pfs_metric).return_amount) /\ IsSome(Val(dtc_metric).return_amount)

MergesRefunds(res) ==
    (IsResult(res) /\ BothCarryRefunds /\ Val(res.val).gmv > 0) =>
        LET r == Val(res.val)
            cancel_amount == Val(Val(pfs_metric).cancel_amount)
                               + Val(Val(dtc_metric).cancel_amount)
            return_amount == Val(Val(pfs_metric).return_amount)
                               + Val(Val(dtc_metric).return_amount)
        IN  /\ r.cancel_amount = Some(cancel_amount)
            /\ r.return_amount = Some(return_amount)
            /\ r.total_refund_amount = Some(cancel_amount + return_amount)
            /\ r.cancel_rate = Some(Hundredths(Pct2(cancel_amount, r.gmv)))
            /\ r.return_rate = Some(Hundredths(Pct2(return_amount, r.gmv)))
            /\ r.rrc = Some(Hundredths(Pct2(cancel_amount + return_amount, r.gmv)))

(* C25: in calculate_total_channel, calculate_dtc_channel and
   calculate_core_business, whenever both inputs carry a cancel amount and a
   return amount (amounts equal to 0 included) and the combined GMV > 0, the
   result carries the summed cancel amount, the summed return amount, their
   total, and the cancel, return and refund rates derived from the combined
   sums. *)
C25_ComposersMergeRefunds ==
    /\ MergesRefunds(total)
    /\ MergesRefunds(dtc)
    /\ MergesRefunds(core_business)

-----------------------------------------------------------------------------
\* At most one aggregate per (year, month, channel).
UniqueKeys(monthly_metrics_) ==
    \A i, j \in 1 .. Len(monthly_metrics_) :
        ( /\ monthly_metrics_[i].channel = monthly_metrics_[j].channel
          /\ PeriodOf(monthly_metrics_[i]) = PeriodOf(monthly_metrics_[j]) ) => i = j

\* The calendar month before a period.
MonthBefore(period) ==
    IF period[2] = 1 THEN <<period[1] - 1, 12>> ELSE <<period[1], period[2] - 1>>

\* One call of calculate_mom_for_all on a list without duplicates: an aggregate
\* gets the growth over the aggregate of its channel for the month before, and
\* keeps the mom_growth it had when the list has none for that month.
MomOverMonthBefore ==
    (CalculateMomForAll /\ UniqueKeys(batch_metrics)) =>
        \A i \in 1 .. Len(batch_metrics) :
            LET m == batch_metrics[i]
                before == MonthBefore(PeriodOf(m))
                last == LastIndexOf(batch_metrics, m.channel, before[1], before[2])
            IN  batch_metrics'[i].mom_growth =
                    IF last = 0 THEN m.mom_growth
                    ELSE OptHundredths(calculate_mom(Some(m.net),
                                                     Some(batch_metrics[last].net)))

(* C26: calculate_mom_for_all sets an aggregate's mom_growth from the
   aggregate of the same channel for the immediately preceding calendar month;
   when the list holds no aggregate of that channel for that month, the
   aggregate's mom_growth is left as it was (null) rather than computed against
   an older period. *)
C26_MomOverMonthBefore == [][MomOverMonthBefore]_vars

-----------------------------------------------------------------------------
\* The consecutive calendar months from April of the fiscal-year start through
\* (year, month).
FiscalWindow(year, month) ==
    IF month >= 4
    THEN [k \in 1 .. month - 3 |-> <<year, k + 3>>]
    ELSE [k \in 1 .. 9 + month |-> IF k <= 9 THEN <<year - 1, k + 3>> ELSE <<year, k - 9>>]

\* The FF / DTC_FF rows of the sheet whose (year, month) is in the window.
SheetRowsInWindow ==
    LET window == FiscalWindow(ytd_period.year, ytd_period.month)
    IN  SelectSeq(Val(excel_sheet).rows,
                  LAMBDA r : /\ r.channel \in {"FF", "DTC_FF"}
                             /\ \E k \in 1 .. Len(window) : window[k] = <<r.year, r.month>>)

(* C27: for every (year, month) with month in 1..12 the month-enumeration loop
   of the fiscal-YTD supplementary read terminates and lists, once each and in
   order, exactly the calendar months from April of the fiscal-year start
   through (year, month); the supplementary YTD row exists when the sheet has
   FF / DTC_FF rows in those months, and its gmv and net are the sums over all
   of them. *)
C27_YtdWindowMonths ==
    ytd_ff_read # NotCalled =>
        /\ months_listed = Returned(FiscalWindow(ytd_period.year, ytd_period.month))
        /\ ytd_ff_read.kind = "returned"
        /\ IsSome(ytd_ff_read.val) <=> SheetRowsInWindow # <<>>
        /\ IsSome(ytd_ff_read.val) =>
             LET row == Val(ytd_ff_read.val).rows[1]
             IN  /\ Len(Val(ytd_ff_read.val).rows) = 1
                 /\ row.gmv = Some(SumCol(SheetRowsInWindow, "gmv"))
                 /\ row.net = Some(SumCol(SheetRowsInWindow, "net"))

C27_Witness ==
    /\ ytd_period = [year |-> FirstYear + 1, month |-> 2]
    /\ months_listed.kind = "returned"
    /\ Len(months_listed.val) = 11
    /\ IsResult(ytd_ff_read)
    /\ Len(SheetRowsInWindow) = 2
    /\ Val(ytd_ff_read.val).rows[1].gmv = Some(5)

\* The DTC aggregate of the selected month with nothing excluded, as handed to
\* calculate_dtc_excl_ff and calculate_dtc_excl_ff_sc.
FullDtcAggregated ==
    /\ selector.channel = "DTC"
    /\ ~exclusion_config.exclude_ff /\ ~exclusion_config.exclude_social
    /\ IsResult(monthly_excl)

\* m carries, under the tag channel, the month's DTC sums less the sums of the
\* columns named by the prefixes.
SubtractedUnderTag(m, channel, prefixes) ==
    LET Less(col, part) ==
            SumCol(MatchedRows, col)
            - (IF "dtc_ff" \in prefixes
               THEN SumCol(MatchedRows, "dtc_ff_" \o part) ELSE 0)
            - (IF "dtc_social" \in prefixes
               THEN SumCol(MatchedRows, "dtc_social_" \o part) ELSE 0)
    IN  /\ m.channel = channel
        /\ m.net = Less("net", "net")
        /\ m.gmv = Less("gmv", "gmv")
        /\ m.uv = Less("uv", "traffic")

\* C28: calculate_dtc_excl_ff_sc of the month's DTC aggregate is tagged
\* DTC_EXCL_FF_SC and carries revenue, GMV and visitors of DTC - FF - SC, and
\* calculate_dtc_excl_ff of it is tagged DTC_EXCL_FF and carries DTC - FF.
C28_DerivedDtcSubtracts ==
    FullDtcAggregated =>
        /\ IsResult(excl_ff_sc_result) =>
               SubtractedUnderTag(Val(excl_ff_sc_result.val), "DTC_EXCL_FF_SC",
                                  {"dtc_ff", "dtc_social"})
        /\ IsResult(excl_ff_result) =>
               SubtractedUnderTag(Val(excl_ff_result.val), "DTC_EXCL_FF", {"dtc_ff"})

\* C29: a list with at most one aggregate per (year, month, channel) yields a
\* result list with at most one aggregate per (year, month, channel), also when
\* the list already holds a CORE_BUSINESS or DTC_EXCL_FF_SC aggregate.
C29_DerivedKeepsKeysUnique ==
    (UniqueKeys(batch_metrics) /\ batch_result.kind = "returned") =>
        UniqueKeys(batch_result.val)

\* The calendar years around the records.
CalendarYears == (FiscalYtdYear - 2) .. (FiscalYtdYear + 1)

\* The aggregate returned for fiscal (selector.year, selector.month) is the
\* aggregate of calendar (year, selector.month): tagged with that calendar month,
\* of the fiscal year asked for, and carrying the sums DataAggregator.aggregate_monthly
\* computes from the records of that calendar month (calculator.py 289-306);
\* nothing is returned exactly when that calendar month has no record.
FiscalIsCalendar(year) ==
    LET monthly_df == FilterRows(daily_metrics, year, selector.month, selector.channel)
        sums == AggregateKwargs(monthly_df, year, selector.month, selector.channel,
                                FALSE, None)
    IN  /\ fiscal_monthly # NotCalled =>
               ((fiscal_monthly = Returned(None)) <=> (monthly_df = <<>>))
        /\ IsResult(fiscal_monthly) =>
               LET m == Val(fiscal_monthly.val)
               IN  /\ m.year = year /\ m.month = selector.month
                   /\ metric_fiscal_year(m) = selector.year
                   /\ \A f \in {"gmv", "net", "uv", "buyers", "paid_traffic", "free_traffic"} :
                          m[f] = sums[f]

\* C30: for every calendar (year, month), the fiscal aggregator asked for
\* (get_fiscal_year of that month, month) selects exactly the records of calendar
\* (year, month); its result is tagged (year, month), has the fiscal year asked
\* for, and its gmv, net, uv, buyers, paid_traffic and free_traffic equal the sums
\* aggregate_monthly computes for (year, month).
C30_FiscalMonthIsCalendarMonth ==
    \A year \in CalendarYears :
        get_fiscal_year(Date(year, selector.month, 1)) = selector.year =>
            FiscalIsCalendar(year)

\* An aggregate of a month from April on, while the records also hold the same
\* month of the calendar year that has the fiscal year's number.
C30_Witness ==
    /\ IsResult(fiscal_monthly)
    /\ selector.month >= 4
    /\ Val(fiscal_monthly.val).gmv > 0
    /\ \E i \in 1 .. Len(daily_metrics) :
         /\ daily_metrics[i].date.year = selector.year
         /\ daily_metrics[i].date.month = selector.month
         /\ daily_metrics[i].channel = selector.channel

====
